---- MODULE Spec2Model ----
(***************************************************************************)
(* Limb-level model of the ramp multiplication kernels, Montgomery         *)
(* reduction and modular exponentiation drivers.                            *)
(*                                                                         *)
(* Memory is one flat sequence of limbs; a pointer (Limbs / LimbsMut) is    *)
(* a 0-based address into it.  A call is modelled as one action: it lays    *)
(* its arguments out in memory, runs the routine and records the result.    *)
(***************************************************************************)
EXTENDS Integers, Sequences, FiniteSets, TLC

VARIABLES
    bits,   \* Limb::BITS of the build that is running
    junk,   \* what a limb holds before it is first written (uninitialised memory)
    pc,     \* "idle": no call made yet; "done": a call has returned
    op,     \* name of the routine that was called
    inp,    \* its arguments
    out     \* what it returned / wrote

vars == <<bits, junk, pc, op, inp, out>>

(***************************************************************************)
(* Bounds of the model                                                      *)
(***************************************************************************)
KernelBits == 2     \* limb width used for the single-limb kernels
MaxLen == 3         \* longest limb vector given to mul_1 / addmul_1
MulBits == 2        \* limb width used for the multipliers
MaxMulLen == 4      \* longest operand given to mul_toom22
MaxBasecaseLen == 3 \* longest operand given to mul_basecase and to mul
MaxUnbalancedLen == 6   \* longest first operand given to mul_unbalanced
MaxSqrLen == 4      \* longest operand given to sqr / sqr_rec / sqr_toom2
Guard == 2          \* limbs watched behind an output region

(***************************************************************************)
(* Limb primitives (ll::limb)                                               *)
(***************************************************************************)
B == 2 ^ bits

LimbSet == 0 .. (B - 1)

\* Limb + Limb, Limb - Limb: wrapping machine arithmetic
LimbAdd(a, b) == (a + b) % B

LimbSub(a, b) == (a - b) % B

mul_hilo(a, b) == [hi |-> (a * b) \div B, lo |-> (a * b) % B]

add_overflow(a, b) == [sum |-> (a + b) % B, carry |-> IF a + b >= B THEN 1 ELSE 0]

sub_overflow(a, b) == [diff |-> (a - b) % B, borrow |-> IF a < b THEN 1 ELSE 0]

(***************************************************************************)
(* Flat memory                                                              *)
(***************************************************************************)
At(mem, p) == mem[p + 1]

Put(mem, p, v) == [mem EXCEPT ![p + 1] = v]

Slice(mem, p, n) == SubSeq(mem, p + 1, p + n)

\* the limb values given to the kernels: the smallest and the largest two
\* (every limb value when bits <= 2)
LimbSample == {0, 1, B - 2, B - 1} \cap LimbSet

\* the limb vectors of length n given to the kernels
Vectors(n) == [1 .. n -> LimbSample]

RECURSIVE Fill(_, _)

\* n limbs, all equal to v
Fill(n, v) ==
    IF n <= 0 THEN <<>>
    ELSE IF n = 1 THEN <<v>>
    ELSE Fill(n \div 2, v) \o Fill(n - n \div 2, v)

RECURSIVE Value(_)
\* little-endian value of a limb vector: sum of s[i] * B^(i-1)
Value(s) == IF Len(s) = 0 THEN 0 ELSE s[1] + B * Value(Tail(s))

\* a freshly allocated region (mem::TmpAllocator::allocate): n limbs nobody wrote
Fresh(n) == Fill(n, junk)

(***************************************************************************)
(* Limb-vector helpers of the big-integer layer (ll::addsub, ll::base),     *)
(* on flat memory.  Every one reads its operands limb by limb, lowest       *)
(* first, so an output that starts at an operand is updated in place.       *)
(* The modelled memory is finite: a loop whose next store would fall past   *)
(* its end stops there.                                                     *)
(***************************************************************************)
RECURSIVE add_n_loop(_, _, _, _, _, _)
add_n_loop(mem, wp, xp, yp, n, c) ==
    IF n <= 0 \/ wp >= Len(mem) THEN [mem |-> mem, carry |-> c]
    ELSE LET t == At(mem, xp) + At(mem, yp) + c
         IN  add_n_loop(Put(mem, wp, t % B), wp + 1, xp + 1, yp + 1, n - 1, t \div B)

\* {wp, n} <- {xp, n} + {yp, n}, returns the carry
add_n(mem, wp, xp, yp, n) == add_n_loop(mem, wp, xp, yp, n, 0)

RECURSIVE sub_n_loop(_, _, _, _, _, _)
sub_n_loop(mem, wp, xp, yp, n, c) ==
    IF n <= 0 \/ wp >= Len(mem) THEN [mem |-> mem, carry |-> c]
    ELSE LET t == At(mem, xp) - At(mem, yp) - c
         IN  sub_n_loop(Put(mem, wp, t % B), wp + 1, xp + 1, yp + 1, n - 1,
                        IF t < 0 THEN 1 ELSE 0)

\* {wp, n} <- {xp, n} - {yp, n}, returns the borrow
sub_n(mem, wp, xp, yp, n) == sub_n_loop(mem, wp, xp, yp, n, 0)

RECURSIVE add_1_loop(_, _, _, _, _)
add_1_loop(mem, wp, xp, n, c) ==
    IF n <= 0 \/ wp >= Len(mem) THEN [mem |-> mem, carry |-> c]
    ELSE LET t == At(mem, xp) + c
         IN  add_1_loop(Put(mem, wp, t % B), wp + 1, xp + 1, n - 1, t \div B)

\* {wp, xs} <- {xp, xs} + {yp, ys} with xs >= ys, returns the carry
add(mem, wp, xp, xs, yp, ys) ==
    LET r == add_n(mem, wp, xp, yp, ys)
    IN  add_1_loop(r.mem, wp + ys, xp + ys, xs - ys, r.carry)

RECURSIVE sub_1_loop(_, _, _, _, _)
sub_1_loop(mem, wp, xp, n, c) ==
    IF n <= 0 \/ wp >= Len(mem) THEN [mem |-> mem, carry |-> c]
    ELSE LET t == At(mem, xp) - c
         IN  sub_1_loop(Put(mem, wp, t % B), wp + 1, xp + 1, n - 1,
                        IF t < 0 THEN 1 ELSE 0)

\* {wp, xs} <- {xp, xs} - {yp, ys} with xs >= ys, returns the borrow
sub(mem, wp, xp, xs, yp, ys) ==
    LET r == sub_n(mem, wp, xp, yp, ys)
    IN  sub_1_loop(r.mem, wp + ys, xp + ys, xs - ys, r.carry)

RECURSIVE cmp(_, _, _, _)
\* compares {xp, n} with {yp, n} from the highest limb (an Ordering)
cmp(mem, xp, yp, n) ==
    IF n <= 0 THEN "Equal"
    ELSE IF At(mem, xp + n - 1) < At(mem, yp + n - 1) THEN "Less"
    ELSE IF At(mem, xp + n - 1) > At(mem, yp + n - 1) THEN "Greater"
    ELSE cmp(mem, xp, yp, n - 1)

is_zero(mem, p, n) == \A i \in 0 .. (n - 1) : At(mem, p + i) = 0

zero(mem, p, n) ==
    SubSeq(mem, 1, p) \o Fill(n, 0) \o SubSeq(mem, p + n + 1, Len(mem))

RECURSIVE copy_incr(_, _, _, _)
\* copies {src, n} to {dst, n}, lowest limb first
copy_incr(mem, src, dst, n) ==
    IF n <= 0 \/ dst >= Len(mem) THEN mem
    ELSE copy_incr(Put(mem, dst, At(mem, src)), src + 1, dst + 1, n - 1)

RECURSIVE incr(_, _, _)
\* adds the limb c at p and carries upwards for as long as a limb overflows
incr(mem, p, c) ==
    IF p >= Len(mem) THEN mem
    ELSE LET s == add_overflow(At(mem, p), c)
         IN  IF s.carry = 1 THEN incr(Put(mem, p, s.sum), p + 1, 1)
                            ELSE Put(mem, p, s.sum)


(***************************************************************************)
(* Single-limb kernels                                                      *)
(***************************************************************************)
\* mul_1 with the carry of the low-limb addition forgotten
mul_1_step_lost_carry(xl, vl, cl) ==
    LET p == mul_hilo(xl, vl)
        s == add_overflow(p.lo, cl)
    IN  [lo |-> s.sum, cl |-> p.hi]

\* one limb of mul_1: (hpl, lpl) = xl * vl; lpl += cl; cl = hpl + carry
mul_1_step(xl, vl, cl) ==
    LET p == mul_hilo(xl, vl)
        s == add_overflow(p.lo, cl)
    IN  [lo |-> s.sum, cl |-> LimbAdd(p.hi, s.carry)]

RECURSIVE mul_1_generic_loop(_, _, _, _, _, _)
mul_1_generic_loop(mem, wp, xp, n, vl, cl) ==
    LET r == mul_1_step(At(mem, xp), vl, cl)
        mem2 == Put(mem, wp, r.lo)
    IN  IF n - 1 = 0 \/ wp + 1 >= Len(mem2)
        THEN [mem |-> mem2, carry |-> r.cl]
        ELSE mul_1_generic_loop(mem2, wp + 1, xp + 1, n - 1, vl, r.cl)

mul_1_generic(mem, wp, xp, n, vl) == mul_1_generic_loop(mem, wp, xp, n, vl, 0)

mul_1(mem, wp, xp, n, vl) == mul_1_generic(mem, wp, xp, n, vl)

\* addmul_1 with the carry of the addition into w forgotten
addmul_1_step_lost_carry(wl, xl, vl, cl) ==
    LET p == mul_hilo(xl, vl)
        s == add_overflow(p.lo, cl)
        s2 == add_overflow(wl, s.sum)
    IN  [lo |-> s2.sum, cl |-> LimbAdd(p.hi, s.carry)]

\* one limb of addmul_1: as mul_1, then lpl += *wp; cl += carry
addmul_1_step(wl, xl, vl, cl) ==
    LET p == mul_hilo(xl, vl)
        s == add_overflow(p.lo, cl)
        cl1 == LimbAdd(p.hi, s.carry)
        s2 == add_overflow(wl, s.sum)
    IN  [lo |-> s2.sum, cl |-> LimbAdd(cl1, s2.carry)]

RECURSIVE addmul_1_generic_loop(_, _, _, _, _, _)
addmul_1_generic_loop(mem, wp, xp, n, vl, cl) ==
    LET r == addmul_1_step(At(mem, wp), At(mem, xp), vl, cl)
        mem2 == Put(mem, wp, r.lo)
    IN  IF n - 1 = 0 \/ wp + 1 >= Len(mem2)
        THEN [mem |-> mem2, carry |-> r.cl]
        ELSE addmul_1_generic_loop(mem2, wp + 1, xp + 1, n - 1, vl, r.cl)

addmul_1_generic(mem, wp, xp, n, vl) == addmul_1_generic_loop(mem, wp, xp, n, vl, 0)

addmul_1(mem, wp, xp, n, vl) == addmul_1_generic(mem, wp, xp, n, vl)

(***************************************************************************)
(* The kernels of ll::mul::mul_1 and ll::mul::addmul_1 unrolled by four.  r  *)
(* is the memory and the carry limb cl so far.                              *)

\* xl = *xp.offset(off); the mul_1 step; *wp.offset(off) = lpl
mul_1_step_at(r, wp, xp, off, vl) ==
    [mem |-> Put(r.mem, wp + off, mul_1_step(At(r.mem, xp + off), vl, r.carry).lo),
     carry |-> mul_1_step(At(r.mem, xp + off), vl, r.carry).cl]

RECURSIVE mul_1_unroll_tail(_, _, _, _, _)
\* while n != 0 { one limb; n -= 1 }
mul_1_unroll_tail(r, wp, xp, n, vl) ==
    IF n > 0
    THEN mul_1_unroll_tail(mul_1_step_at(r, wp, xp, 0, vl), wp + 1, xp + 1, n - 1, vl)
    ELSE r

RECURSIVE mul_1_unroll_main_three(_, _, _, _, _)
\* the unrolled loop with its fourth limb left out
mul_1_unroll_main_three(r, wp, xp, n, vl) ==
    IF n > 0 /\ n \div 4 # 0
    THEN mul_1_unroll_main_three(
             mul_1_step_at(mul_1_step_at(mul_1_step_at(r, wp, xp, 0, vl),
                                         wp, xp, 1, vl), wp, xp, 2, vl),
             wp + 4, xp + 4, n - 4, vl)
    ELSE mul_1_unroll_tail(r, wp, xp, n, vl)

RECURSIVE mul_1_unroll_main(_, _, _, _, _)
\* while n / 4 != 0 { four limbs; n -= 4 }, then the tail loop
mul_1_unroll_main(r, wp, xp, n, vl) ==
    IF n > 0 /\ n \div 4 # 0
    THEN mul_1_unroll_main(
             mul_1_step_at(mul_1_step_at(mul_1_step_at(mul_1_step_at(r, wp, xp, 0, vl),
                                                       wp, xp, 1, vl), wp, xp, 2, vl),
                           wp, xp, 3, vl),
             wp + 4, xp + 4, n - 4, vl)
    ELSE mul_1_unroll_tail(r, wp, xp, n, vl)

mul_1_generic_unroll_4(mem, wp, xp, n, vl) ==
    mul_1_unroll_main([mem |-> mem, carry |-> 0], wp, xp, n, vl)

\* xl = *xp.offset(off); the addmul_1 step on *wp.offset(off)
addmul_1_step_at(r, wp, xp, off, vl) ==
    [mem |-> Put(r.mem, wp + off,
                 addmul_1_step(At(r.mem, wp + off), At(r.mem, xp + off), vl, r.carry).lo),
     carry |-> addmul_1_step(At(r.mem, wp + off), At(r.mem, xp + off), vl, r.carry).cl]

RECURSIVE addmul_1_unroll_tail(_, _, _, _, _)
addmul_1_unroll_tail(r, wp, xp, n, vl) ==
    IF n > 0
    THEN addmul_1_unroll_tail(addmul_1_step_at(r, wp, xp, 0, vl), wp + 1, xp + 1, n - 1, vl)
    ELSE r

RECURSIVE addmul_1_unroll_main(_, _, _, _, _)
addmul_1_unroll_main(r, wp, xp, n, vl) ==
    IF n > 0 /\ n \div 4 # 0
    THEN addmul_1_unroll_main(
             addmul_1_step_at(
                 addmul_1_step_at(addmul_1_step_at(addmul_1_step_at(r, wp, xp, 0, vl),
                                                   wp, xp, 1, vl), wp, xp, 2, vl),
                 wp, xp, 3, vl),
             wp + 4, xp + 4, n - 4, vl)
    ELSE addmul_1_unroll_tail(r, wp, xp, n, vl)

addmul_1_generic_unroll_4(mem, wp, xp, n, vl) ==
    addmul_1_unroll_main([mem |-> mem, carry |-> 0], wp, xp, n, vl)

(***************************************************************************)
(* Multi-limb multiplication (ll::mul)                                      *)
(***************************************************************************)
TOOM22_THRESHOLD == 20

\* *wp.offset(xs) = carry returned by mul_1 / addmul_1
mul_basecase_store(r, wp, xs) == Put(r.mem, wp + xs, r.carry)

RECURSIVE mul_basecase_loop(_, _, _, _, _, _)
mul_basecase_loop(mem, wp, xp, xs, yp, ys) ==
    IF ys > 0 /\ wp + xs < Len(mem)
    THEN mul_basecase_loop(
             mul_basecase_store(addmul_1(mem, wp, xp, xs, At(mem, yp)), wp, xs),
             wp + 1, xp, xs, yp + 1, ys - 1)
    ELSE mem

mul_basecase(mem, wp, xp, xs, yp, ys) ==
    IF wp + xs > Len(mem) THEN mem
    ELSE mul_basecase_loop(
             mul_basecase_store(mul_1(mem, wp, xp, xs, At(mem, yp)), wp, xs),
             wp + 1, xp, xs, yp + 1, ys - 1)

\* {zp, nl} <- |a0 - a1| for the low half a0 (nl limbs) and the high half a1
\* (ah limbs) of one operand; neg tells whether a0 < a1
toom22_abs_diff(mem, zp, a0, a1, nl, ah) ==
    IF nl = ah
    THEN IF cmp(mem, a0, a1, nl) = "Less"
         THEN [mem |-> sub_n(mem, zp, a1, a0, nl).mem, neg |-> TRUE]
         ELSE [mem |-> sub_n(mem, zp, a0, a1, nl).mem, neg |-> FALSE]
    ELSE IF is_zero(mem, a0 + ah, nl - ah) /\ cmp(mem, a0, a1, ah) = "Less"
         THEN [mem |-> zero(sub_n(mem, zp, a1, a0, ah).mem, zp + ah, nl - ah), neg |-> TRUE]
         ELSE [mem |-> sub(mem, zp, a0, nl, a1, ah).mem, neg |-> FALSE]

RECURSIVE mul_rec(_, _, _, _, _, _, _)
RECURSIVE mul_toom22(_, _, _, _, _, _, _)
RECURSIVE mul_unbalanced(_, _, _, _, _, _, _)
RECURSIVE mul_unbalanced_loop(_, _, _, _, _, _, _, _)

mul_rec(mem, wp, xp, xs, yp, ys, scratch) ==
    IF ys < TOOM22_THRESHOLD
    THEN mul_basecase(mem, wp, xp, xs, yp, ys)
    ELSE IF xs * 2 >= ys * 3
    THEN mul_unbalanced(mem, wp, xp, xs, yp, ys, scratch)
    ELSE mul_toom22(mem, wp, xp, xs, yp, ys, scratch)

(* The recomposition of mul_toom22, statement by statement; on entry        *)
(* {wp, 2*nl} = z0, {wp + 2*nl, xh+yh} = z2, {z1, 2*nl} = |x0-x1| * |y0-y1|.  *)

\* the state before the two incr at the end: d is the result of adding or
\* subtracting z1 (its carry or borrow in d.carry), cy2 and cy the carries so far
toom22_sums(d, cy2, cy, z1_neg) ==
    [mem |-> d.mem, carry |-> d.carry, cy2 |-> cy2, cy |-> cy, z1_neg |-> z1_neg]

\* cy = cy + add_n(..) or cy = cy - sub_n(..); incr(wp + 2*nl, cy2); incr(wp + 3*nl, cy)
toom22_carries(s, wp, nl) ==
    incr(incr(s.mem, wp + nl * 2, s.cy2), wp + nl * 3,
         IF s.z1_neg THEN LimbAdd(s.cy, s.carry) ELSE LimbSub(s.cy, s.carry))

\* cy = cy + LOW(z2) + HIGH(z2) carry; then {wp + nl, 2*nl} +/- z1
toom22_z1(c, cy2, cy, wp, z1, nl, z1_neg) ==
    toom22_sums(IF z1_neg THEN add_n(c.mem, wp + nl, wp + nl, z1, 2 * nl)
                          ELSE sub_n(c.mem, wp + nl, wp + nl, z1, 2 * nl),
                cy2, LimbAdd(cy, c.carry), z1_neg)

\* cy2 = cy + carry of LOW(z0) + LOW(z2); then LOW(z2) + HIGH(z2)
toom22_high(b, cy, wp, z1, nl, xh, yh, z1_neg) ==
    toom22_z1(add(b.mem, wp + 2 * nl, wp + 2 * nl, nl, wp + 3 * nl, yh + xh - nl),
              LimbAdd(cy, b.carry), cy, wp, z1, nl, z1_neg)

\* cy = carry of LOW(z2) = HIGH(z0) + LOW(z2); then LOW(z0) + LOW(z2)
toom22_low(a, wp, z1, nl, xh, yh, z1_neg) ==
    toom22_high(add_n(a.mem, wp + nl, wp, wp + 2 * nl, nl),
                a.carry, wp, z1, nl, xh, yh, z1_neg)

toom22_recompose(mem, wp, z1, nl, xh, yh, z1_neg) ==
    toom22_low(add_n(mem, wp + 2 * nl, wp + 2 * nl, wp + nl, nl),
               wp, z1, nl, xh, yh, z1_neg)

\* the three products z1, z0, z2 and the recomposition; dy is the result of
\* computing zy1 and x_neg tells whether x0 < x1
toom22_products(dy, x_neg, wp, xp, xs, yp, ys, scratch) ==
    LET xh == xs \div 2
        nl == xs - xh
        yh == ys - nl
        x0 == xp
        y0 == yp
        x1 == xp + nl
        y1 == yp + nl
        zx1 == wp
        zy1 == wp + nl
        z0 == wp
        z1 == scratch
        z2 == wp + nl * 2
        scratch_out == scratch + nl * 2
        m1 == mul_rec(dy.mem, z1, zx1, nl, zy1, nl, scratch_out)
        m0 == mul_rec(m1, z0, x0, nl, y0, nl, scratch_out)
        m2 == mul_rec(m0, z2, x1, xh, y1, yh, scratch_out)
    IN  toom22_recompose(m2, wp, z1, nl, xh, yh, x_neg # dy.neg)

\* zy1 = |y0 - y1| at wp + nl; dx is the result of computing zx1
toom22_zy1(dx, wp, xp, xs, yp, ys, scratch) ==
    LET nl == xs - xs \div 2
    IN  toom22_products(toom22_abs_diff(dx.mem, wp + nl, yp, yp + nl, nl, ys - nl),
                        dx.neg, wp, xp, xs, yp, ys, scratch)

\* mul_toom22 up to the last addition or subtraction of z1
toom22_recomposed(mem, wp, xp, xs, yp, ys, scratch) ==
    LET nl == xs - xs \div 2
    IN  toom22_zy1(toom22_abs_diff(mem, wp, xp, xp + nl, nl, xs \div 2),
                   wp, xp, xs, yp, ys, scratch)

mul_toom22(mem, wp, xp, xs, yp, ys, scratch) ==
    IF wp + xs > Len(mem) THEN mem
    ELSE toom22_carries(toom22_recomposed(mem, wp, xp, xs, yp, ys, scratch),
                        wp, xs - xs \div 2)

\* the copy and the incr of one merge; a is the result of the add_n
unbalanced_copy(a, wp, w_tmp, ys, n) ==
    incr(copy_incr(a.mem, w_tmp + ys, wp + ys, n), wp + ys, a.carry)

\* the merge of one slice product {w_tmp, ys + n} into {wp, ...}
unbalanced_merge(mem, wp, w_tmp, ys, n) ==
    unbalanced_copy(add_n(mem, wp, wp, w_tmp, ys), wp, w_tmp, ys, n)

mul_unbalanced_loop(mem, wp, xp, xs, yp, ys, scratch, w_tmp) ==
    IF xs >= ys * 2
    THEN mul_unbalanced_loop(
             unbalanced_merge(mul_toom22(mem, w_tmp, xp, ys, yp, ys, scratch),
                              wp, w_tmp, ys, ys),
             wp + ys, xp + ys, xs - ys, yp, ys, scratch, w_tmp)
    ELSE unbalanced_merge(IF xs >= ys
                          THEN mul_rec(mem, w_tmp, xp, xs, yp, ys, scratch)
                          ELSE mul_rec(mem, w_tmp, yp, ys, xp, xs, scratch),
                          wp, w_tmp, ys, xs)

\* w_tmp = tmp.allocate(ys * 3): a fresh region behind the memory m in use
unbalanced_allocate(m, wp, xp, xs, yp, ys, scratch) ==
    mul_unbalanced_loop(m \o Fresh(ys * 3), wp, xp, xs, yp, ys, scratch, Len(m))

mul_unbalanced(mem, wp, xp, xs, yp, ys, scratch) ==
    unbalanced_allocate(mul_toom22(mem, wp, xp, ys, yp, ys, scratch),
                        wp + ys, xp + ys, xs - ys, yp, ys, scratch)

\* scratch = tmp.allocate(xs * 2): a fresh region behind the memory in use
mul_allocate(mem, wp, xp, xs, yp, ys) ==
    IF xs * 2 >= ys * 3
    THEN mul_unbalanced(mem \o Fresh(xs * 2), wp, xp, xs, yp, ys, Len(mem))
    ELSE mul_toom22(mem \o Fresh(xs * 2), wp, xp, xs, yp, ys, Len(mem))

mul(mem, wp, xp, xs, yp, ys) ==
    IF ys <= TOOM22_THRESHOLD
    THEN mul_basecase(mem, wp, xp, xs, yp, ys)
    ELSE mul_allocate(mem, wp, xp, xs, yp, ys)

RECURSIVE sqr_rec(_, _, _, _, _)
RECURSIVE sqr_toom2(_, _, _, _, _)

sqr_rec(mem, wp, xp, xs, scratch) ==
    IF xs < TOOM22_THRESHOLD
    THEN mul_basecase(mem, wp, xp, xs, xp, xs)
    ELSE sqr_toom2(mem, wp, xp, xs, scratch)

\* cy = cy + carry of the second add_n; incr(wp + xl + xs, cy)
sqr_toom2_carry(b, cy, p) == incr(b.mem, p, LimbAdd(cy, b.carry))

\* {wp + xl, xs} += 2 * z1; a is the result of doubling z1
sqr_toom2_add(a, wp, xl, z1, xs) ==
    sqr_toom2_carry(add_n(a.mem, wp + xl, wp + xl, z1, xs), a.carry, wp + xl + xs)

sqr_toom2(mem, wp, xp, xs, scratch) ==
    IF wp + xs > Len(mem) THEN mem ELSE
    LET xh == xs \div 2
        xl == xs - xh
        x0 == xp
        x1 == xp + xl
        z0 == wp
        z1 == scratch
        z2 == wp + xl * 2
        scratch_out == scratch + xl * 2
        m1 == mul_rec(mem, z1, x0, xl, x1, xh, scratch_out)
        m0 == sqr_rec(m1, z0, x0, xl, scratch_out)
        m2 == sqr_rec(m0, z2, x1, xh, scratch_out)
    IN  sqr_toom2_add(add_n(m2, z1, z1, z1, xs), wp, xl, z1, xs)

sqr(mem, wp, xp, xs) ==
    IF xs <= TOOM22_THRESHOLD
    THEN mul_basecase(mem, wp, xp, xs, xp, xs)
    ELSE sqr_toom2(mem \o Fresh(xs * 2), wp, xp, xs, Len(mem))

(***************************************************************************)
(* Montgomery reduction and the single-limb inverse (ll::mtgy; the same     *)
(* code is in ll::montgomery as montgomery_redc and                         *)
(* single_limb_montgomery_inverse).                                         *)
(***************************************************************************)
\* one step of the inner loop: t[i + j] + lo(m * n[j]) + carry, and the carry
\* c1 + c2 + hi(m * n[j]) it leaves
redc_mul_step(tl, nl, m, carry) ==
    LET p == mul_hilo(m, nl)
        s1 == add_overflow(tl, p.lo)
        s2 == add_overflow(s1.sum, carry % B)
    IN  [s |-> s2.sum, carry |-> s1.carry + s2.carry + p.hi]

RECURSIVE redc_mul_loop(_, _, _, _, _, _, _, _)

redc_mul_store(mem, t, n, i, j, r_limbs, m, r) ==
    redc_mul_loop(Put(mem, t + i + j, r.s), t, n, i, j + 1, r_limbs, m, r.carry)

\* for j in 0..r_limbs
redc_mul_loop(mem, t, n, i, j, r_limbs, m, carry) ==
    IF j >= r_limbs \/ t + i + j >= Len(mem) THEN [mem |-> mem, carry |-> carry]
    ELSE redc_mul_store(mem, t, n, i, j, r_limbs, m,
                        redc_mul_step(At(mem, t + i + j), At(mem, n + j), m, carry))

RECURSIVE redc_carry_loop(_, _, _, _, _)

redc_carry_store(mem, t, j, r_limbs, s) ==
    redc_carry_loop(Put(mem, t + j, s.sum), t, j + 1, r_limbs, s.carry)

\* for j in (i + r_limbs)..(2 * r_limbs)
redc_carry_loop(mem, t, j, r_limbs, carry) ==
    IF j >= 2 * r_limbs \/ t + j >= Len(mem) THEN [mem |-> mem, carry |-> carry]
    ELSE redc_carry_store(mem, t, j, r_limbs, add_overflow(At(mem, t + j), carry % B))

redc_carry(r, t, i, r_limbs) == redc_carry_loop(r.mem, t, i + r_limbs, r_limbs, r.carry)

\* the same round with m = t[i]: nquote0 left out
redc_round_without_nquote0(mem, t, n, i, r_limbs, nquote0) ==
    redc_carry(redc_mul_loop(mem, t, n, i, 0, r_limbs, At(mem, t + i), 0), t, i, r_limbs)

\* one round of the outer loop: carry = 0; m = t[i] * nquote0; the two inner loops
redc_round(mem, t, n, i, r_limbs, nquote0) ==
    redc_carry(redc_mul_loop(mem, t, n, i, 0, r_limbs, (At(mem, t + i) * nquote0) % B, 0),
               t, i, r_limbs)

RECURSIVE redc_loop(_, _, _, _, _, _)
\* for i in 0..r_limbs; r holds the memory and the carry the previous round left,
\* and only the memory goes into the next round
redc_loop(r, t, n, i, r_limbs, nquote0) ==
    IF i >= r_limbs THEN r
    ELSE redc_loop(redc_round(r.mem, t, n, i, r_limbs, nquote0), t, n, i + 1, r_limbs, nquote0)

RECURSIVE redc_carries(_, _, _, _, _, _)

redc_carries_next(r, t, n, i, r_limbs, nquote0) ==
    <<r.carry>> \o redc_carries(r.mem, t, n, i + 1, r_limbs, nquote0)

\* the value `carry` holds at the end of each round of the outer loop, round 0
\* first; all but the last are overwritten by `carry = 0` in the next round
redc_carries(mem, t, n, i, r_limbs, nquote0) ==
    IF i >= r_limbs THEN <<>>
    ELSE redc_carries_next(redc_round(mem, t, n, i, r_limbs, nquote0),
                           t, n, i, r_limbs, nquote0)

\* the limbs of t one round would touch if its carry loop ran to 2 * r_limbs
\* inclusive, as on a t of 2 * r_limbs + 1 limbs
redc_round_indices_wide(i, r_limbs) ==
    {i} \cup {i + j : j \in 0 .. (r_limbs - 1)} \cup ((i + r_limbs) .. (2 * r_limbs))

\* the offsets into t of round i: t[i] for m, t[i + j] for j in 0..r_limbs, t[j]
\* for j in (i + r_limbs)..(2 * r_limbs)
redc_round_indices(i, r_limbs) ==
    {i} \cup {i + j : j \in 0 .. (r_limbs - 1)} \cup ((i + r_limbs) .. (2 * r_limbs - 1))

\* every offset into t: the rounds, then {t + r_limbs, r_limbs} in cmp and in
\* sub_n or copy_incr
redc_t_indices(r_limbs) ==
    UNION {redc_round_indices(i, r_limbs) : i \in 0 .. (r_limbs - 1)}
        \cup {r_limbs + j : j \in 0 .. (r_limbs - 1)}

\* every offset into w: {wp, r_limbs} in sub_n or copy_incr
redc_w_indices(r_limbs) == {j : j \in 0 .. (r_limbs - 1)}

\* the final step without the subtraction of n
redc_finish_copy_only(r, wp, r_limbs, n, t) ==
    copy_incr(r.mem, t + r_limbs, wp, r_limbs)

\* the final step with its result written over n
redc_finish_over_modulus(r, wp, r_limbs, n, t) ==
    IF r.carry > 0 \/ cmp(r.mem, t + r_limbs, n, r_limbs) # "Less"
    THEN sub_n(r.mem, n, t + r_limbs, n, r_limbs).mem
    ELSE copy_incr(r.mem, t + r_limbs, n, r_limbs)

redc_finish(r, wp, r_limbs, n, t) ==
    IF r.carry > 0 \/ cmp(r.mem, t + r_limbs, n, r_limbs) # "Less"
    THEN sub_n(r.mem, wp, t + r_limbs, n, r_limbs).mem
    ELSE copy_incr(r.mem, t + r_limbs, wp, r_limbs)

redc(mem, wp, r_limbs, n, nquote0, t) ==
    redc_finish(redc_loop([mem |-> mem, carry |-> 0], t, n, 0, r_limbs, nquote0),
                wp, r_limbs, n, t)

RECURSIVE inv1_loop(_, _, _)
\* for i in 2..Limb::BITS
inv1_loop(x, y, i) ==
    IF i >= bits THEN y
    ELSE inv1_loop(x, IF 2 ^ (i - 1) < ((x * y) % B) % (2 ^ i) THEN y + 2 ^ (i - 1) ELSE y,
                   i + 1)

\* inv1 without its last step
inv1_top_skipped(x, y) == y

inv1_top(x, y) == IF 2 ^ (bits - 1) < (x * y) % B THEN y + 2 ^ (bits - 1) ELSE y

inv1(x) == inv1_top(x, inv1_loop(x, 1, 2))

single_limb_montgomery_inverse(x) == inv1_top(x, inv1_loop(x, 1, 2))

\* nquote0 without the negation
nquote0_not_negated(n0) == single_limb_montgomery_inverse(n0)

\* ll::montgomery::modpow_by_montgomery: nquote0 = 0 - inverse(n[0]), wrapping
modpow_by_montgomery_nquote0(n0) == LimbSub(0, single_limb_montgomery_inverse(n0))

(***************************************************************************)
(* Montgomery exponentiation (ll::mtgy::modpow and its mul / sqr).          *)
(***************************************************************************)
mtgy_k == 6

RECURSIVE BitLength(_)
\* number of bits of the non-negative integer v
BitLength(v) == IF v <= 0 THEN 0 ELSE 1 + BitLength(v \div 2)

RECURSIVE num_base_digits(_, _, _)
\* ll::base::num_base_digits(p, n, 2): the bit length of the value of {p, n}
num_base_digits(mem, p, n) ==
    IF n <= 0 THEN 0
    ELSE IF At(mem, p + n - 1) # 0 THEN (n - 1) * bits + BitLength(At(mem, p + n - 1))
    ELSE num_base_digits(mem, p, n - 1)

\* (*(bp.offset(p / BITS)) >> (p % BITS)) & 1
exp_bit(mem, bp, p) == (At(mem, bp + p \div bits) \div 2 ^ (p % bits)) % 2

RECURSIVE block_value_unguarded(_, _, _, _, _, _)
\* the same loop without the test p < exp_bit_length
block_value_unguarded(mem, bp, i, j, k, exp_bit_length) ==
    IF j >= k THEN 0
    ELSE (IF exp_bit(mem, bp, i * k + j) = 1 THEN 2 ^ j ELSE 0)
         + block_value_unguarded(mem, bp, i, j + 1, k, exp_bit_length)

RECURSIVE block_value(_, _, _, _, _, _)
\* for j in 0..k: bit i * k + j of the exponent, if below exp_bit_length, at 1 << j
block_value(mem, bp, i, j, k, exp_bit_length) ==
    IF j >= k THEN 0
    ELSE (IF i * k + j < exp_bit_length /\ exp_bit(mem, bp, i * k + j) = 1 THEN 2 ^ j ELSE 0)
         + block_value(mem, bp, i, j + 1, k, exp_bit_length)

mtgy_mul(mem, wp, r_limbs, a, b, n, nquote0, t, scratch_mul) ==
    redc(mul_rec(mem, t, a, r_limbs, b, r_limbs, scratch_mul), wp, r_limbs, n, nquote0, t)

mtgy_sqr(mem, wp, r_limbs, a, n, nquote0, t, scratch_mul) ==
    redc(sqr_rec(mem, t, a, r_limbs, scratch_mul), wp, r_limbs, n, nquote0, t)

\* t, scratch_mul, pow_0 (limb 0 set to 1) and pow_1 (a copy of a), allocated in
\* this order behind the memory in use
mtgy_allocate(mem, r_limbs, a) ==
    copy_incr(mem \o Fresh(2 * r_limbs + 1) \o Fresh(2 * r_limbs)
                  \o <<1>> \o Fresh(r_limbs - 1) \o Fresh(r_limbs),
              a, Len(mem) + 5 * r_limbs + 1, r_limbs)

RECURSIVE mtgy_table(_, _, _, _, _, _, _, _)
\* for _ in 2..(1 << k): next = allocate(r_limbs); mul(next, pow_1, previous).
\* The table rows lie one behind the other from the address table (pow_0).
mtgy_table(mem, idx, table, r_limbs, n, nquote0, t, scratch_mul) ==
    IF idx >= 2 ^ mtgy_k \/ Len(mem) < table THEN mem
    ELSE mtgy_table(mtgy_mul(mem \o Fresh(r_limbs), table + idx * r_limbs, r_limbs,
                             table + r_limbs, table + (idx - 1) * r_limbs,
                             n, nquote0, t, scratch_mul),
                    idx + 1, table, r_limbs, n, nquote0, t, scratch_mul)

RECURSIVE mtgy_sqr_times(_, _, _, _, _, _, _, _)
\* for _ in 0..k: sqr(wp, wp)
mtgy_sqr_times(mem, count, wp, r_limbs, n, nquote0, t, scratch_mul) ==
    IF count <= 0 \/ wp >= Len(mem) THEN mem
    ELSE mtgy_sqr_times(mtgy_sqr(mem, wp, r_limbs, wp, n, nquote0, t, scratch_mul),
                        count - 1, wp, r_limbs, n, nquote0, t, scratch_mul)

\* if block_value != 0: mul(wp, wp, table[block_value])
mtgy_block_mul(mem, value, wp, table, r_limbs, n, nquote0, t, scratch_mul) ==
    IF value # 0
    THEN mtgy_mul(mem, wp, r_limbs, wp, table + value * r_limbs, n, nquote0, t, scratch_mul)
    ELSE mem

RECURSIVE mtgy_blocks(_, _, _, _, _, _, _, _, _, _, _)
\* for i in (0..block_count).rev()
mtgy_blocks(mem, i, exp_bit_length, wp, table, r_limbs, n, nquote0, bp, t, scratch_mul) ==
    IF i < 0 \/ wp >= Len(mem) THEN mem
    ELSE mtgy_blocks(mtgy_block_mul(mtgy_sqr_times(mem, mtgy_k, wp, r_limbs, n, nquote0,
                                                   t, scratch_mul),
                                    block_value(mem, bp, i, 0, mtgy_k, exp_bit_length),
                                    wp, table, r_limbs, n, nquote0, t, scratch_mul),
                     i - 1, exp_bit_length, wp, table, r_limbs, n, nquote0, bp, t, scratch_mul)

mtgy_modpow(mem, wp, r_limbs, n, nquote0, a, bp, bn) ==
    mtgy_blocks(mtgy_table(mtgy_allocate(mem, r_limbs, a), 2, Len(mem) + 4 * r_limbs + 1,
                           r_limbs, n, nquote0, Len(mem), Len(mem) + 2 * r_limbs + 1),
                (num_base_digits(mem, bp, bn) + mtgy_k - 1) \div mtgy_k - 1,
                num_base_digits(mem, bp, bn), wp, Len(mem) + 4 * r_limbs + 1,
                r_limbs, n, nquote0, bp, Len(mem), Len(mem) + 2 * r_limbs + 1)

(***************************************************************************)
(* The Montgomery facade (mtgy::MtgyModulus).  An Int is its value, a       *)
(* MtgyInt is its limb vector.                                              *)
(***************************************************************************)
RECURSIVE ToLimbs(_, _)
\* the n low limbs of the integer v, lowest first
ToLimbs(v, n) == IF n <= 0 THEN <<>> ELSE <<v % B>> \o ToLimbs(v \div B, n - 1)

\* Int::abs_size: the limbs a non-negative Int occupies
abs_size(v) == (BitLength(v) + bits - 1) \div bits

MtgyModulus_new(modulus) ==
    [modulus |-> modulus,
     modulus_inv0 |-> inv1((2 ^ (abs_size(modulus) * bits) - modulus) % B),
     limbs |-> abs_size(modulus),
     r |-> 2 ^ (abs_size(modulus) * bits)]

\* t = a copy of a; ll::mtgy::redc(a.limbs, limbs, modulus.limbs, modulus_inv0, t);
\* a.size = limbs.  Layout: modulus at 0, a at limbs, t at 3 * limbs.
MtgyModulus_redc_memory(mg, a) ==
    redc(copy_incr(ToLimbs(mg.modulus, mg.limbs) \o a \o Fresh(2 * mg.limbs),
                   mg.limbs, 3 * mg.limbs, 2 * mg.limbs),
         mg.limbs, mg.limbs, 0, mg.modulus_inv0, 3 * mg.limbs)

MtgyModulus_redc(mg, a) == Slice(MtgyModulus_redc_memory(mg, a), mg.limbs, mg.limbs)

\* Layout: a at 0, b at limbs, t at 2 * limbs
MtgyModulus_mul_memory(mg, a, b) ==
    mul(a \o b \o Fresh(2 * mg.limbs), 2 * mg.limbs, 0, mg.limbs, mg.limbs, mg.limbs)

MtgyModulus_mul(mg, a, b) ==
    MtgyModulus_redc(mg, Slice(MtgyModulus_mul_memory(mg, a, b), 2 * mg.limbs, 2 * mg.limbs))

\* Layout: a at 0, t at limbs
MtgyModulus_sqr_memory(mg, a) == sqr(a \o Fresh(2 * mg.limbs), mg.limbs, 0, mg.limbs)

MtgyModulus_sqr(mg, a) ==
    MtgyModulus_redc(mg, Slice(MtgyModulus_sqr_memory(mg, a), mg.limbs, 2 * mg.limbs))

\* zero-fills a up to s limbs and sets its size to s
pad_to(a, s) == ToLimbs(a, s)

montgomerize(mg, a) == pad_to(a, mg.limbs)

to_mtgy(mg, a) == montgomerize(mg, (a * mg.r) % mg.modulus)

to_int(mg, a) == Value(MtgyModulus_redc(mg, pad_to(Value(a) % mg.modulus, 2 * mg.limbs)))

\* Layout: result at 0, modulus at limbs, basis at 2 * limbs, exponent at 3 * limbs
MtgyModulus_pow_memory(mg, basis, exponent) ==
    mtgy_modpow(to_mtgy(mg, 1) \o ToLimbs(mg.modulus, mg.limbs) \o basis
                    \o ToLimbs(exponent, abs_size(exponent)),
                0, mg.limbs, mg.limbs, mg.modulus_inv0, 2 * mg.limbs, 3 * mg.limbs,
                abs_size(exponent))

MtgyModulus_pow(mg, basis, exponent) ==
    Slice(MtgyModulus_pow_memory(mg, basis, exponent), 0, mg.limbs)

(***************************************************************************)
(* The assertions at the entry of the facade methods.                       *)
(***************************************************************************)
\* Int::sign
sign(v) == IF v > 0 THEN 1 ELSE IF v < 0 THEN 0 - 1 ELSE 0

\* Int::is_even
is_even(v) == v % 2 = 0

\* the assertions of new without the one on the sign
new_asserts_odd_only(modulus) == ~is_even(modulus)

new_asserts(modulus) == ~is_even(modulus) /\ sign(modulus) = 1

mul_asserts(mg, a, b) == Len(a) = mg.limbs /\ Len(b) = mg.limbs

sqr_asserts(mg, a) == Len(a) = mg.limbs

pow_asserts(mg, basis, exponent) == Len(basis) = mg.limbs /\ sign(exponent) >= 0

to_int_asserts(mg, a) == Len(a) = mg.limbs

(***************************************************************************)
(* Generic modular exponentiation (ll::modpow::modpow; the same code is in  *)
(* ll::montgomery).                                                         *)
(***************************************************************************)
modpow_k == 7

\* writes the limbs s at p
Store(mem, p, s) == SubSeq(mem, 1, p) \o s \o SubSeq(mem, p + Len(s) + 1, Len(mem))

\* ll::div::divrem(qp, rp, np, ns, dp, ds): {qp, ns - ds + 1} <- {np, ns} / {dp, ds},
\* {rp, ds} <- {np, ns} mod {dp, ds}
divrem(mem, qp, rp, np, ns, dp, ds) ==
    Store(Store(mem, qp, ToLimbs(Value(Slice(mem, np, ns)) \div Value(Slice(mem, dp, ds)),
                                 ns - ds + 1)),
          rp, ToLimbs(Value(Slice(mem, np, ns)) % Value(Slice(mem, dp, ds)), ds))

\* mul(scratch, x, mn, y, mn); divrem(scratch_q, rp, scratch, 2 * mn, mp, mn)
modpow_mul(mem, rp, xp, yp, mp, mn, scratch, scratch_q) ==
    divrem(mul(mem, scratch, xp, mn, yp, mn), scratch_q, rp, scratch, 2 * mn, mp, mn)

\* sqr(scratch, wp, mn); divrem(scratch_q, wp, scratch, 2 * mn, mp, mn)
modpow_sqr(mem, wp, mp, mn, scratch, scratch_q) ==
    divrem(sqr(mem, scratch, wp, mn), scratch_q, wp, scratch, 2 * mn, mp, mn)

\* scratch, scratch_q, pow_0 (limb 0 set to 1) and pow_1 (the an limbs of a copied
\* into it), allocated in this order behind the memory in use
modpow_allocate(mem, mn, ap, an) ==
    copy_incr(mem \o Fresh(2 * mn) \o Fresh(mn + 1) \o <<1>> \o Fresh(mn - 1) \o Fresh(mn),
              ap, Len(mem) + 4 * mn + 1, an)

RECURSIVE modpow_table(_, _, _, _, _, _, _)
\* for _ in 2..(1 << k): next = allocate(mn); next = pow_1 * previous mod m
modpow_table(mem, idx, table, mp, mn, scratch, scratch_q) ==
    IF idx >= 2 ^ modpow_k \/ Len(mem) < table THEN mem
    ELSE modpow_table(modpow_mul(mem \o Fresh(mn), table + idx * mn, table + mn,
                                 table + (idx - 1) * mn, mp, mn, scratch, scratch_q),
                      idx + 1, table, mp, mn, scratch, scratch_q)

RECURSIVE modpow_sqr_times(_, _, _, _, _, _, _)
modpow_sqr_times(mem, count, wp, mp, mn, scratch, scratch_q) ==
    IF count <= 0 \/ wp >= Len(mem) THEN mem
    ELSE modpow_sqr_times(modpow_sqr(mem, wp, mp, mn, scratch, scratch_q),
                          count - 1, wp, mp, mn, scratch, scratch_q)

\* if block_value != 0: w = table[block_value] * w mod m
modpow_block_mul(mem, value, wp, table, mp, mn, scratch, scratch_q) ==
    IF value # 0
    THEN modpow_mul(mem, wp, table + value * mn, wp, mp, mn, scratch, scratch_q)
    ELSE mem

RECURSIVE modpow_blocks(_, _, _, _, _, _, _, _, _, _)
\* for i in (0..block_count).rev()
modpow_blocks(mem, i, exp_bit_length, wp, table, mp, mn, bp, scratch, scratch_q) ==
    IF i < 0 \/ wp >= Len(mem) THEN mem
    ELSE modpow_blocks(modpow_block_mul(modpow_sqr_times(mem, modpow_k, wp, mp, mn,
                                                         scratch, scratch_q),
                                        block_value(mem, bp, i, 0, modpow_k, exp_bit_length),
                                        wp, table, mp, mn, scratch, scratch_q),
                       i - 1, exp_bit_length, wp, table, mp, mn, bp, scratch, scratch_q)

\* *wp = Limb(1), then the window scan
modpow(mem, wp, mp, mn, ap, an, bp, bn) ==
    modpow_blocks(Put(modpow_table(modpow_allocate(mem, mn, ap, an), 2, Len(mem) + 3 * mn + 1,
                                   mp, mn, Len(mem), Len(mem) + 2 * mn),
                      wp, 1),
                  (num_base_digits(mem, bp, bn) + modpow_k - 1) \div modpow_k - 1,
                  num_base_digits(mem, bp, bn), wp, Len(mem) + 3 * mn + 1,
                  mp, mn, bp, Len(mem), Len(mem) + 2 * mn)

(***************************************************************************)
(* The full-width Montgomery driver (ll::modpow::modpow_by_montgomery and   *)
(* its montgomery_mul): nquote has r_limbs limbs.                           *)
(***************************************************************************)
full_k == 3

\* if cmp(x + r_limbs, n, r_limbs) != Less { sub_n(wp, x + r_limbs, n, r_limbs) }
\* else { copy_incr(x + r_limbs, wp, r_limbs) }
montgomery_mul_finish(mem, wp, r_limbs, n, x) ==
    IF cmp(mem, x + r_limbs, n, r_limbs) # "Less"
    THEN sub_n(mem, wp, x + r_limbs, n, r_limbs).mem
    ELSE copy_incr(mem, x + r_limbs, wp, r_limbs)

\* t <- a * b;  M <- (t mod R) * nquote;  MN <- (M mod R) * n;  X <- t + MN over
\* 2 * r_limbs limbs, the carry of add_n is not kept
montgomery_mul_sum(mem, r_limbs, a, b, n, nquote, t, m, mn, x) ==
    add_n(mul(mul(mul(mem, t, a, r_limbs, b, r_limbs), m, t, r_limbs, nquote, r_limbs),
              mn, m, r_limbs, n, r_limbs),
          x, t, mn, 2 * r_limbs)

\* scratch_t, scratch_m, scratch_mn and scratch_x are allocated behind the memory
\* in use and given back on return
montgomery_mul(mem, wp, r_limbs, a, b, n, nquote) ==
    SubSeq(montgomery_mul_finish(
               montgomery_mul_sum(mem \o Fresh(8 * r_limbs), r_limbs, a, b, n, nquote,
                                  Len(mem), Len(mem) + 2 * r_limbs,
                                  Len(mem) + 4 * r_limbs, Len(mem) + 6 * r_limbs).mem,
               wp, r_limbs, n, Len(mem) + 6 * r_limbs),
           1, Len(mem))

\* scratch, pow_0 (limb 0 set to 1) and pow_1 (a copied into it)
full_allocate(mem, r_limbs, a) ==
    copy_incr(mem \o Fresh(2 * r_limbs) \o <<1>> \o Fresh(r_limbs - 1) \o Fresh(r_limbs),
              a, Len(mem) + 3 * r_limbs, r_limbs)

RECURSIVE full_table(_, _, _, _, _, _)
\* for _ in 2..(1 << k): next = allocate(r_limbs); next = pow_1 * previous
full_table(mem, idx, table, r_limbs, n, nquote) ==
    IF idx >= 2 ^ full_k \/ Len(mem) < table THEN mem
    ELSE full_table(montgomery_mul(mem \o Fresh(r_limbs), table + idx * r_limbs, r_limbs,
                                   table + r_limbs, table + (idx - 1) * r_limbs, n, nquote),
                    idx + 1, table, r_limbs, n, nquote)

\* montgomery_mul(scratch, r_limbs, x, y, n, nquote); copy_incr(scratch, wp, r_limbs)
full_mul_into(mem, wp, r_limbs, x, y, n, nquote, scratch) ==
    copy_incr(montgomery_mul(mem, scratch, r_limbs, x, y, n, nquote), scratch, wp, r_limbs)

RECURSIVE full_sqr_times(_, _, _, _, _, _, _)
full_sqr_times(mem, count, wp, r_limbs, n, nquote, scratch) ==
    IF count <= 0 \/ wp >= Len(mem) THEN mem
    ELSE full_sqr_times(full_mul_into(mem, wp, r_limbs, wp, wp, n, nquote, scratch),
                        count - 1, wp, r_limbs, n, nquote, scratch)

full_block_mul(mem, value, wp, r_limbs, n, nquote, scratch, table) ==
    IF value # 0
    THEN full_mul_into(mem, wp, r_limbs, wp, table + value * r_limbs, n, nquote, scratch)
    ELSE mem

RECURSIVE full_blocks(_, _, _, _, _, _, _, _, _, _)
\* for i in (0..block_count).rev()
full_blocks(mem, i, exp_bit_length, wp, r_limbs, n, nquote, bp, scratch, table) ==
    IF i < 0 \/ wp >= Len(mem) THEN mem
    ELSE full_blocks(full_block_mul(full_sqr_times(mem, full_k, wp, r_limbs, n, nquote,
                                                   scratch),
                                    block_value(mem, bp, i, 0, full_k, exp_bit_length),
                                    wp, r_limbs, n, nquote, scratch, table),
                     i - 1, exp_bit_length, wp, r_limbs, n, nquote, bp, scratch, table)

modpow_by_montgomery(mem, wp, r_limbs, n, nquote, a, bp, bn) ==
    full_blocks(full_table(full_allocate(mem, r_limbs, a), 2, Len(mem) + 2 * r_limbs,
                           r_limbs, n, nquote),
                (num_base_digits(mem, bp, bn) + full_k - 1) \div full_k - 1,
                num_base_digits(mem, bp, bn), wp, r_limbs, n, nquote, bp,
                Len(mem), Len(mem) + 2 * r_limbs)

(***************************************************************************)
(* Calls of the single-limb kernels.  Layout: x at 0, w at n.               *)
(***************************************************************************)
Return ==
    /\ pc = "done"
    /\ pc' = "idle"
    /\ op' = "none"
    /\ inp' = <<>>
    /\ out' = <<>>
    /\ UNCHANGED <<bits, junk>>

CallMul1 ==
    /\ pc = "idle"
    /\ \E n \in 1 .. MaxLen :
         \E x \in Vectors(n), w \in {Fill(n, 0), Fresh(n)}, vl \in LimbSample :
            LET r == mul_1(x \o w, n, 0, n, vl)
            IN  /\ op' = "mul_1"
                /\ inp' = [n |-> n, x |-> x, w |-> w, vl |-> vl]
                /\ out' = [w |-> Slice(r.mem, n, n), x |-> Slice(r.mem, 0, n), carry |-> r.carry]
    /\ pc' = "done"
    /\ UNCHANGED <<bits, junk>>

CallAddmul1 ==
    /\ pc = "idle"
    /\ \E n \in 1 .. MaxLen :
         \E x \in Vectors(n), w \in Vectors(n), vl \in LimbSample :
            LET r == addmul_1(x \o w, n, 0, n, vl)
            IN  /\ op' = "addmul_1"
                /\ inp' = [n |-> n, x |-> x, w |-> w, vl |-> vl]
                /\ out' = [w |-> Slice(r.mem, n, n), x |-> Slice(r.mem, 0, n), carry |-> r.carry]
    /\ pc' = "done"
    /\ UNCHANGED <<bits, junk>>

InitKernel ==
    /\ bits = KernelBits
    /\ junk = 2 ^ KernelBits - 1
    /\ pc = "idle"
    /\ op = "none"
    /\ inp = <<>>
    /\ out = <<>>

NextKernel == CallMul1 \/ CallAddmul1 \/ Return

SpecKernel == InitKernel /\ [][NextKernel]_vars

(***************************************************************************)
(* Calls of the multipliers.  Layout: x at 0, y at xs, w at xs + ys         *)
(* (xs + ys limbs), then Guard limbs that belong to nobody, then the        *)
(* caller-supplied scratch of 2 * xs limbs.                                 *)
(***************************************************************************)
\* the limb vectors of length n given to the multipliers: limbs 0, 1 and B - 1
MulVectors(n) == [1 .. n -> {0, 1, B - 1}]

MulLayout(x, y) == x \o y \o Fresh(Len(x) + Len(y)) \o Fill(Guard, 0) \o Fresh(2 * Len(x))

MulScratch(xs, ys) == 2 * (xs + ys) + Guard

MulOut(m, xs, ys) ==
    [w |-> Slice(m, xs + ys, xs + ys), guard |-> Slice(m, 2 * (xs + ys), Guard),
     x |-> Slice(m, 0, xs), y |-> Slice(m, xs, ys)]

\* the sizes mul_toom22 accepts (its debug assertions)
Toom22Sizes(xs, ys) ==
    /\ xs >= ys /\ xs < ys * 2
    /\ 0 < xs \div 2 /\ xs \div 2 <= xs - xs \div 2
    /\ 0 < ys - (xs - xs \div 2) /\ ys - (xs - xs \div 2) <= xs \div 2

CallMulBasecase ==
    /\ pc = "idle"
    /\ \E xs \in 1 .. MaxBasecaseLen, ys \in 1 .. MaxBasecaseLen :
         \E x \in MulVectors(xs), y \in MulVectors(ys) :
            /\ op' = "mul_basecase"
            /\ inp' = [xs |-> xs, ys |-> ys, x |-> x, y |-> y]
            /\ out' = MulOut(mul_basecase(MulLayout(x, y), xs + ys, 0, xs, xs, ys), xs, ys)
    /\ pc' = "done"
    /\ UNCHANGED <<bits, junk>>

\* what a mul_toom22 call leaves, and the carries it held before its two incr
Toom22Out(s, m, xs, ys) ==
    [w |-> Slice(m, xs + ys, xs + ys), guard |-> Slice(m, 2 * (xs + ys), Guard),
     x |-> Slice(m, 0, xs), y |-> Slice(m, xs, ys),
     z1_neg |-> s.z1_neg, cy2 |-> s.cy2, cy |-> s.cy, borrow |-> s.carry]

CallMulToom22 ==
    /\ pc = "idle"
    /\ \E xs \in 1 .. MaxMulLen, ys \in 1 .. MaxMulLen :
         /\ Toom22Sizes(xs, ys)
         /\ \E x \in MulVectors(xs), y \in MulVectors(ys) :
            /\ op' = "mul_toom22"
            /\ inp' = [xs |-> xs, ys |-> ys, x |-> x, y |-> y]
            /\ out' = Toom22Out(toom22_recomposed(MulLayout(x, y), xs + ys, 0, xs, xs, ys,
                                                  MulScratch(xs, ys)),
                                mul_toom22(MulLayout(x, y), xs + ys, 0, xs, xs, ys,
                                           MulScratch(xs, ys)), xs, ys)
    /\ pc' = "done"
    /\ UNCHANGED <<bits, junk>>

CallMulUnbalanced ==
    /\ pc = "idle"
    /\ \E ys \in 2 .. MaxMulLen, xs \in 3 .. MaxUnbalancedLen :
         /\ xs > ys
         /\ xs + 2 * ys <= MaxUnbalancedLen + 4
         /\ \E x \in MulVectors(xs), y \in MulVectors(ys) :
            /\ op' = "mul_unbalanced"
            /\ inp' = [xs |-> xs, ys |-> ys, x |-> x, y |-> y]
            /\ out' = MulOut(mul_unbalanced(MulLayout(x, y), xs + ys, 0, xs, xs, ys,
                                            MulScratch(xs, ys)), xs, ys)
    /\ pc' = "done"
    /\ UNCHANGED <<bits, junk>>

CallMul ==
    /\ pc = "idle"
    /\ \E xs \in 1 .. MaxBasecaseLen, ys \in 1 .. MaxBasecaseLen :
         /\ xs >= ys
         /\ \E x \in MulVectors(xs), y \in MulVectors(ys) :
            /\ op' = "mul"
            /\ inp' = [xs |-> xs, ys |-> ys, x |-> x, y |-> y]
            /\ out' = MulOut(mul(MulLayout(x, y), xs + ys, 0, xs, xs, ys), xs, ys)
    /\ pc' = "done"
    /\ UNCHANGED <<bits, junk>>

InitMul ==
    /\ bits = MulBits
    /\ junk \in {0, 2 ^ MulBits - 1}
    /\ pc = "idle"
    /\ op = "none"
    /\ inp = <<>>
    /\ out = <<>>

NextMul == CallMulBasecase \/ CallMulToom22 \/ CallMulUnbalanced \/ CallMul \/ Return

SpecMul == InitMul /\ [][NextMul]_vars

(***************************************************************************)
(* Calls of the squaring routines.  Layout: x at 0, w at xs (2 * xs limbs), *)
(* then Guard limbs; sqr allocates its own scratch.                         *)
(***************************************************************************)
RECURSIVE Stretch(_, _)
\* every limb of s repeated k times
Stretch(s, k) == IF Len(s) = 0 THEN <<>> ELSE Fill(k, Head(s)) \o Stretch(Tail(s), k)

\* operands long enough for sqr to leave the basecase and for its cross
\* product to be a Toom-22 multiplication: 2 * TOOM22_THRESHOLD limbs, in four
\* alternating runs of equal limbs
WideVectors ==
    {Stretch(<<a, b, a, b>>, TOOM22_THRESHOLD \div 2) : a, b \in {0, B \div 2, B - 1}}

SqrLayout(x) == x \o Fresh(2 * Len(x)) \o Fill(Guard, 0)

SqrOut(m, xs) ==
    [w |-> Slice(m, xs, 2 * xs), guard |-> Slice(m, 3 * xs, Guard), x |-> Slice(m, 0, xs)]

CallSqr ==
    /\ pc = "idle"
    /\ \E x \in UNION {Vectors(xs) : xs \in 1 .. MaxSqrLen} \cup WideVectors :
         /\ op' = "sqr"
         /\ inp' = [xs |-> Len(x), x |-> x]
         /\ out' = SqrOut(sqr(SqrLayout(x), Len(x), 0, Len(x)), Len(x))
    /\ pc' = "done"
    /\ UNCHANGED <<bits, junk>>

InitSqr ==
    /\ bits = MulBits
    /\ junk = 2 ^ MulBits - 1
    /\ pc = "idle"
    /\ op = "none"
    /\ inp = <<>>
    /\ out = <<>>

NextSqr == CallSqr \/ Return

SpecSqr == InitSqr /\ [][NextSqr]_vars


(***************************************************************************)
(* Calls of the single-limb inverse, for every limb width from 2 bits up.   *)
(***************************************************************************)
MaxInvBits == 8     \* widest limb given to inv1

OddLimbs == {x \in LimbSet : x % 2 = 1}

CallInv1 ==
    /\ pc = "idle"
    /\ \E x \in OddLimbs :
         /\ op' = "inv1"
         /\ inp' = [x |-> x]
         /\ out' = [y |-> inv1(x)]
    /\ pc' = "done"
    /\ UNCHANGED <<bits, junk>>

CallSingleLimbMontgomeryInverse ==
    /\ pc = "idle"
    /\ \E x \in OddLimbs :
         /\ op' = "single_limb_montgomery_inverse"
         /\ inp' = [x |-> x]
         /\ out' = [y |-> single_limb_montgomery_inverse(x)]
    /\ pc' = "done"
    /\ UNCHANGED <<bits, junk>>

InitInv ==
    /\ bits \in 2 .. MaxInvBits
    /\ junk = 0
    /\ pc = "idle"
    /\ op = "none"
    /\ inp = <<>>
    /\ out = <<>>

ModulusSpan == 4    \* the moduli given to the two derivations of nquote0 are below ModulusSpan * B

\* the constant as MtgyModulus::new derives it (facade) and as
\* modpow_by_montgomery derives it from the low limb of the modulus (driver)
CallNquote0 ==
    /\ pc = "idle"
    /\ \E n \in 1 .. (ModulusSpan * B - 1) :
         /\ n % 2 = 1
         /\ op' = "nquote0"
         /\ inp' = [n |-> n]
         /\ out' = [facade |-> MtgyModulus_new(n).modulus_inv0,
                    driver |-> modpow_by_montgomery_nquote0(n % B)]
    /\ pc' = "done"
    /\ UNCHANGED <<bits, junk>>

NextInv == CallInv1 \/ CallSingleLimbMontgomeryInverse \/ CallNquote0 \/ Return

SpecInv == InitInv /\ [][NextInv]_vars

(***************************************************************************)
(* Calls of redc.  Layout: n at 0, t at r_limbs (2 * r_limbs limbs), w at   *)
(* 3 * r_limbs.                                                             *)
(***************************************************************************)
RedcBits == 2       \* limb width used for redc
MaxRedcLimbs == 2   \* largest r_limbs given to redc

\* the odd moduli that occupy exactly n limbs
OddModuli(n) == {m \in (B ^ (n - 1)) .. (B ^ n - 1) : m % 2 = 1}

CallRedc ==
    /\ pc = "idle"
    /\ \E r_limbs \in 1 .. MaxRedcLimbs :
         \E m \in OddModuli(r_limbs), nquote0 \in LimbSet :
            /\ (m * nquote0) % B = B - 1
            /\ \E tv \in 0 .. (m * B ^ r_limbs - 1) :
                 /\ op' = "redc"
                 /\ inp' = [r_limbs |-> r_limbs, n |-> m, nquote0 |-> nquote0, t |-> tv]
                 /\ out' = [w |-> Slice(redc(ToLimbs(m, r_limbs) \o ToLimbs(tv, 2 * r_limbs)
                                                \o Fresh(r_limbs),
                                             3 * r_limbs, r_limbs, 0, nquote0, r_limbs),
                                        3 * r_limbs, r_limbs),
                            carries |-> redc_carries(ToLimbs(m, r_limbs)
                                                         \o ToLimbs(tv, 2 * r_limbs)
                                                         \o Fresh(r_limbs),
                                                     r_limbs, 0, 0, r_limbs, nquote0)]
    /\ pc' = "done"
    /\ UNCHANGED <<bits, junk>>

\* n, t (exactly 2 * r_limbs limbs) and w, each followed by one limb g that
\* belongs to none of them
RedcGuarded(m, tv, r_limbs, g) ==
    ToLimbs(m, r_limbs) \o <<g>> \o ToLimbs(tv, 2 * r_limbs) \o <<g>> \o Fresh(r_limbs) \o <<g>>

\* what redc leaves of the guarded layout
RedcSpanOut(mem, r_limbs) ==
    [n |-> Slice(mem, 0, r_limbs),
     w |-> Slice(mem, 3 * r_limbs + 2, r_limbs),
     guards |-> <<At(mem, r_limbs), At(mem, 3 * r_limbs + 1), At(mem, 4 * r_limbs + 2)>>]

\* redc on a t of exactly 2 * r_limbs limbs, once between limbs of zeros and once
\* between limbs of all ones
CallRedcSpan ==
    /\ pc = "idle"
    /\ \E r_limbs \in 1 .. MaxRedcLimbs :
         \E m \in OddModuli(r_limbs), nquote0 \in LimbSet :
            /\ (m * nquote0) % B = B - 1
            /\ \E tv \in {0, m - 1, m * B ^ r_limbs - 1, B ^ (2 * r_limbs) - 1} :
                 /\ op' = "redc_span"
                 /\ inp' = [r_limbs |-> r_limbs, n |-> m, nquote0 |-> nquote0, t |-> tv]
                 /\ out' = [zeros |-> RedcSpanOut(redc(RedcGuarded(m, tv, r_limbs, 0),
                                                       3 * r_limbs + 2, r_limbs, 0, nquote0,
                                                       r_limbs + 1),
                                                  r_limbs),
                            ones |-> RedcSpanOut(redc(RedcGuarded(m, tv, r_limbs, B - 1),
                                                      3 * r_limbs + 2, r_limbs, 0, nquote0,
                                                      r_limbs + 1),
                                                 r_limbs),
                            t_indices |-> redc_t_indices(r_limbs),
                            w_indices |-> redc_w_indices(r_limbs)]
    /\ pc' = "done"
    /\ UNCHANGED <<bits, junk>>

InitRedc ==
    /\ bits = RedcBits
    /\ junk \in {0, 2 ^ RedcBits - 1}
    /\ pc = "idle"
    /\ op = "none"
    /\ inp = <<>>
    /\ out = <<>>

NextRedc == CallRedc \/ CallRedcSpan \/ Return

SpecRedc == InitRedc /\ [][NextRedc]_vars

(***************************************************************************)
(* A session with the Montgomery facade: build a MtgyModulus, convert one   *)
(* or two integers, combine them with mul, sqr or pow, and convert the      *)
(* result back.                                                             *)
(*   pc = "modulus": a MtgyModulus exists (out.mg)                          *)
(*   pc = "mtgy":    out.x is a MtgyInt, made by the operation op           *)
(*   pc = "pair":    out.x and out.y are the MtgyInts of inp.a and inp.b    *)
(***************************************************************************)
MtgyBits == 3       \* limb width used for the facade
MaxModulus == 63    \* largest modulus given to MtgyModulus::new

\* the second factors given to mul: the smallest and the largest residues
Residues(n) == {0, 1, 2, n \div 2, n - 3, n - 2, n - 1} \cap (0 .. (n - 1))

\* the moduli pow is called with: 1, one limb of all ones, the smallest of two
\* limbs, and the largest modulus (whose top limb is all ones)
PowModuli == {1, B - 1, B + 1, MaxModulus}

\* the exponents given to pow; their bit lengths are 0, 1, 2, 3, 6 and 7
PowExponents == {0, 1, 2, 3, 5, 63, 64, 100}

MtgyNew ==
    /\ pc = "idle"
    /\ \E n \in 1 .. MaxModulus :
         /\ n % 2 = 1
         /\ inp' = [n |-> n]
         /\ out' = [mg |-> MtgyModulus_new(n)]
    /\ pc' = "modulus"
    /\ op' = "new"
    /\ UNCHANGED <<bits, junk>>

MtgyToMtgy ==
    /\ pc = "modulus"
    /\ \E a \in 0 .. (inp.n - 1) :
         /\ inp' = [n |-> inp.n, a |-> a]
         /\ out' = [mg |-> out.mg, x |-> to_mtgy(out.mg, a)]
    /\ pc' = "mtgy"
    /\ op' = "to_mtgy"
    /\ UNCHANGED <<bits, junk>>

MtgyToMtgySecond ==
    /\ pc = "mtgy" /\ op = "to_mtgy"
    /\ \E b \in Residues(inp.n) :
         /\ inp' = [n |-> inp.n, a |-> inp.a, b |-> b]
         /\ out' = [mg |-> out.mg, x |-> out.x, y |-> to_mtgy(out.mg, b)]
    /\ pc' = "pair"
    /\ op' = "to_mtgy"
    /\ UNCHANGED <<bits, junk>>

MtgyMul ==
    /\ pc = "pair"
    /\ out' = [mg |-> out.mg, x |-> MtgyModulus_mul(out.mg, out.x, out.y)]
    /\ pc' = "mtgy"
    /\ op' = "mul"
    /\ UNCHANGED <<bits, junk, inp>>

MtgySqr ==
    /\ pc = "mtgy" /\ op = "to_mtgy"
    /\ out' = [mg |-> out.mg, x |-> MtgyModulus_sqr(out.mg, out.x)]
    /\ pc' = "mtgy"
    /\ op' = "sqr"
    /\ UNCHANGED <<bits, junk, inp>>

MtgyPow ==
    /\ pc = "mtgy" /\ op = "to_mtgy"
    /\ inp.n \in PowModuli
    /\ \E e \in PowExponents :
         /\ inp' = [n |-> inp.n, a |-> inp.a, e |-> e]
         /\ out' = [mg |-> out.mg, x |-> MtgyModulus_pow(out.mg, out.x, e)]
    /\ pc' = "mtgy"
    /\ op' = "pow"
    /\ UNCHANGED <<bits, junk>>

MtgyToInt ==
    /\ pc = "mtgy"
    /\ out' = [of |-> op, x |-> out.x, v |-> to_int(out.mg, out.x)]
    /\ pc' = "done"
    /\ op' = "to_int"
    /\ UNCHANGED <<bits, junk, inp>>

InitMtgy ==
    /\ bits = MtgyBits
    /\ junk \in {0, 2 ^ MtgyBits - 1}
    /\ pc = "idle"
    /\ op = "none"
    /\ inp = <<>>
    /\ out = <<>>

NextMtgy ==
    \/ MtgyNew \/ MtgyToMtgy \/ MtgyToMtgySecond \/ MtgyMul \/ MtgySqr \/ MtgyPow
    \/ MtgyToInt \/ Return

SpecMtgy == InitMtgy /\ [][NextMtgy]_vars

(***************************************************************************)
(* Calls of the generic modpow.  Layout: w at 0, m at mn, a at 2 * mn       *)
(* (an limbs), b behind a.                                                  *)
(***************************************************************************)
ModpowBits == 2         \* limb width used for modpow
MaxModpowLimbs == 2     \* largest mn given to modpow

\* the moduli given to modpow: 1, the largest of one limb, the smallest and two
\* of the largest of two limbs
ModpowModuli(mn) == {1, B - 1, B, B ^ 2 - 3, B ^ 2 - 1} \cap ((B ^ (mn - 1)) .. (B ^ mn - 1))

\* the bases given to modpow
ModpowBases(m) == {0, 2, m - 1} \cap (0 .. (m - 1))

\* the exponents given to modpow; their bit lengths are 0, 1, 2, 7 and 8
ModpowExponents == {0, 1, 3, 127, 200}

\* what a modpow call leaves: w, and the power table in the arena, which starts
\* at limb `arena` (scratch, scratch_q, then the 2^k entries of mn limbs)
ModpowOut(m, mn, arena) ==
    [w |-> Slice(m, 0, mn), table |-> Slice(m, arena + 3 * mn + 1, mn * 2 ^ modpow_k)]

CallModpow ==
    /\ pc = "idle"
    /\ \E mn \in 1 .. MaxModpowLimbs :
         \E m \in ModpowModuli(mn) :
            \E a \in ModpowBases(m), b \in ModpowExponents, w \in {Fill(mn, 0), Fresh(mn)} :
               \E an \in abs_size(a) .. mn :
                  /\ op' = "modpow"
                  /\ inp' = [mn |-> mn, m |-> m, a |-> a, an |-> an, b |-> b, w |-> w]
                  /\ out' = ModpowOut(modpow(w \o ToLimbs(m, mn) \o ToLimbs(a, an)
                                                  \o ToLimbs(b, abs_size(b)),
                                              0, mn, mn, 2 * mn, an, 2 * mn + an,
                                              abs_size(b)),
                                       mn, 2 * mn + an + abs_size(b))
    /\ pc' = "done"
    /\ UNCHANGED <<bits, junk>>

InitModpow ==
    /\ bits = ModpowBits
    /\ junk \in {0, 2 ^ ModpowBits - 1}
    /\ pc = "idle"
    /\ op = "none"
    /\ inp = <<>>
    /\ out = <<>>

\* the same call made twice, on an output buffer of zeros and on one of all ones
CallModpowPair ==
    /\ pc = "idle"
    /\ \E mn \in 1 .. MaxModpowLimbs :
         \E m \in ModpowModuli(mn) :
            \E a \in ModpowBases(m) \ {0}, b \in {0, 1} :
               /\ op' = "modpow_pair"
               /\ inp' = [mn |-> mn, m |-> m, a |-> a, b |-> b]
               /\ out' = [first |-> Slice(modpow(Fill(mn, 0) \o ToLimbs(m, mn)
                                                    \o ToLimbs(a, mn)
                                                    \o ToLimbs(b, abs_size(b)),
                                                 0, mn, mn, 2 * mn, mn, 3 * mn,
                                                 abs_size(b)),
                                          0, mn),
                          second |-> Slice(modpow(Fill(mn, B - 1) \o ToLimbs(m, mn)
                                                     \o ToLimbs(a, mn)
                                                     \o ToLimbs(b, abs_size(b)),
                                                  0, mn, mn, 2 * mn, mn, 3 * mn,
                                                  abs_size(b)),
                                           0, mn)]
    /\ pc' = "done"
    /\ UNCHANGED <<bits, junk>>

NextModpow == CallModpow \/ CallModpowPair \/ Return

SpecModpow == InitModpow /\ [][NextModpow]_vars

(***************************************************************************)
(* Calls of the full-width driver.  Layout: w at 0, n at r_limbs, nquote at *)
(* 2 * r_limbs, a at 3 * r_limbs, then b (r_limbs limbs for montgomery_mul, *)
(* the exponent for the driver).                                            *)
(***************************************************************************)
MaxFullLimbs == 2   \* largest r_limbs given to the full-width driver

\* the odd moduli below R = B ^ r_limbs
FullModuli(r_limbs) == {n \in 1 .. (B ^ r_limbs - 1) : n % 2 = 1}

\* nquote with n * nquote = -1 mod R
FullNquote(n, R) == CHOOSE q \in 0 .. (R - 1) : (n * q) % R = R - 1

\* x * R^(-1) mod n
FullUnshift(x, n, R) == CHOOSE v \in 0 .. (n - 1) : (v * R) % n = x % n

FullExponents == {0, 1, 2, 5, 11}

CallMontgomeryMul ==
    /\ pc = "idle"
    /\ \E r_limbs \in 1 .. MaxFullLimbs :
         \E n \in FullModuli(r_limbs) :
            \E a \in 0 .. (n - 1), b \in 0 .. (n - 1) :
               /\ op' = "montgomery_mul"
               /\ inp' = [r_limbs |-> r_limbs, n |-> n, a |-> a, b |-> b]
               /\ out' = [w |-> Slice(montgomery_mul(
                                          Fresh(r_limbs) \o ToLimbs(n, r_limbs)
                                              \o ToLimbs(FullNquote(n, B ^ r_limbs), r_limbs)
                                              \o ToLimbs(a, r_limbs) \o ToLimbs(b, r_limbs),
                                          0, r_limbs, 3 * r_limbs, 4 * r_limbs, r_limbs,
                                          2 * r_limbs),
                                      0, r_limbs)]
    /\ pc' = "done"
    /\ UNCHANGED <<bits, junk>>

\* w holds R mod n and a holds a * R mod n on entry
CallModpowByMontgomery ==
    /\ pc = "idle"
    /\ \E r_limbs \in 1 .. MaxFullLimbs :
         \E n \in FullModuli(r_limbs) \cap {1, B - 1, B ^ 2 - 3, B ^ 2 - 1} :
            \E a \in {0, 1, 2, n - 1} \cap (0 .. (n - 1)), b \in FullExponents :
               /\ op' = "modpow_by_montgomery"
               /\ inp' = [r_limbs |-> r_limbs, n |-> n, a |-> a, b |-> b]
               /\ out' = [w |-> Slice(modpow_by_montgomery(
                                          ToLimbs((B ^ r_limbs) % n, r_limbs)
                                              \o ToLimbs(n, r_limbs)
                                              \o ToLimbs(FullNquote(n, B ^ r_limbs), r_limbs)
                                              \o ToLimbs((a * B ^ r_limbs) % n, r_limbs)
                                              \o ToLimbs(b, abs_size(b)),
                                          0, r_limbs, r_limbs, 2 * r_limbs, 3 * r_limbs,
                                          4 * r_limbs, abs_size(b)),
                                      0, r_limbs)]
    /\ pc' = "done"
    /\ UNCHANGED <<bits, junk>>

NextFull == CallMontgomeryMul \/ CallModpowByMontgomery \/ Return

SpecFull == InitModpow /\ [][NextFull]_vars

(***************************************************************************)
(* A chain of facade calls on one MtgyModulus: out.y is the Montgomery form *)
(* of inp.a, out.x the latest result; every later call takes earlier        *)
(* results as its operands.                                                 *)
(***************************************************************************)
\* the moduli of the chains: 1, one limb of all ones, the smallest of two limbs,
\* a prime of two limbs and the largest modulus
ChainModuli == {1, B - 1, B + 1, MaxModulus - 2, MaxModulus}

\* the integers a chain starts from
ChainBases(n) == {0, 1, 2, 3, 5, n - 3, n - 2, n - 1} \cap (0 .. (n - 1))

\* the exponents given to pow in a chain
ChainExponents == {3}

ChainNew ==
    /\ pc = "idle"
    /\ \E n \in ChainModuli :
         /\ inp' = [n |-> n]
         /\ out' = [mg |-> MtgyModulus_new(n)]
    /\ pc' = "chain_modulus"
    /\ op' = "new"
    /\ UNCHANGED <<bits, junk>>

ChainToMtgy ==
    /\ pc = "chain_modulus"
    /\ \E a \in ChainBases(inp.n) :
         /\ inp' = [n |-> inp.n, a |-> a]
         /\ out' = [mg |-> out.mg, x |-> to_mtgy(out.mg, a), y |-> to_mtgy(out.mg, a)]
    /\ pc' = "chain"
    /\ op' = "to_mtgy"
    /\ UNCHANGED <<bits, junk>>

ChainMul ==
    /\ pc = "chain"
    /\ out' = [out EXCEPT !.x = MtgyModulus_mul(out.mg, out.x, out.y)]
    /\ op' = "mul"
    /\ UNCHANGED <<bits, junk, pc, inp>>

ChainSqr ==
    /\ pc = "chain"
    /\ out' = [out EXCEPT !.x = MtgyModulus_sqr(out.mg, out.x)]
    /\ op' = "sqr"
    /\ UNCHANGED <<bits, junk, pc, inp>>

ChainPow ==
    /\ pc = "chain"
    /\ \E e \in ChainExponents :
         out' = [out EXCEPT !.x = MtgyModulus_pow(out.mg, out.x, e)]
    /\ op' = "pow"
    /\ UNCHANGED <<bits, junk, pc, inp>>

NextChain == ChainNew \/ ChainToMtgy \/ ChainMul \/ ChainSqr \/ ChainPow

SpecChain == InitMtgy /\ [][NextChain]_vars

(***************************************************************************)
(* Facade calls with arbitrary arguments: moduli of either sign and parity, *)
(* MtgyInts made for any modulus, exponents of either sign.  A call whose   *)
(* assertion fails panics and returns nothing.                              *)
(***************************************************************************)
MaxAssertModulus == 9   \* the moduli given to new are -MaxAssertModulus .. MaxAssertModulus
MaxAssertExponent == 2  \* the exponents given to pow are -MaxAssertExponent .. MaxAssertExponent

\* MtgyInts of the smallest and the largest residue of every valid modulus
AnyMtgyInts ==
    UNION {{to_mtgy(MtgyModulus_new(m), 0), to_mtgy(MtgyModulus_new(m), m - 1)} :
           m \in {n \in 1 .. MaxAssertModulus : n % 2 = 1}}

CheckedNew ==
    /\ pc = "idle"
    /\ \E n \in (0 - MaxAssertModulus) .. MaxAssertModulus :
         /\ inp' = [n |-> n]
         /\ IF new_asserts(n)
            THEN out' = [panic |-> FALSE, mg |-> MtgyModulus_new(n)] /\ pc' = "checked_modulus"
            ELSE out' = [panic |-> TRUE] /\ pc' = "done"
    /\ op' = "new"
    /\ UNCHANGED <<bits, junk>>

CheckedMul ==
    /\ pc = "checked_modulus"
    /\ \E a \in AnyMtgyInts, b \in AnyMtgyInts :
         /\ inp' = [n |-> inp.n, limbs |-> out.mg.limbs, a |-> a, b |-> b]
         /\ out' = IF mul_asserts(out.mg, a, b)
                   THEN [panic |-> FALSE, x |-> MtgyModulus_mul(out.mg, a, b)]
                   ELSE [panic |-> TRUE]
    /\ pc' = "done"
    /\ op' = "mul"
    /\ UNCHANGED <<bits, junk>>

CheckedSqr ==
    /\ pc = "checked_modulus"
    /\ \E a \in AnyMtgyInts :
         /\ inp' = [n |-> inp.n, limbs |-> out.mg.limbs, a |-> a]
         /\ out' = IF sqr_asserts(out.mg, a)
                   THEN [panic |-> FALSE, x |-> MtgyModulus_sqr(out.mg, a)]
                   ELSE [panic |-> TRUE]
    /\ pc' = "done"
    /\ op' = "sqr"
    /\ UNCHANGED <<bits, junk>>

CheckedPow ==
    /\ pc = "checked_modulus"
    /\ \E a \in AnyMtgyInts, e \in (0 - MaxAssertExponent) .. MaxAssertExponent :
         /\ inp' = [n |-> inp.n, limbs |-> out.mg.limbs, a |-> a, e |-> e]
         /\ out' = IF pow_asserts(out.mg, a, e)
                   THEN [panic |-> FALSE, x |-> MtgyModulus_pow(out.mg, a, e)]
                   ELSE [panic |-> TRUE]
    /\ pc' = "done"
    /\ op' = "pow"
    /\ UNCHANGED <<bits, junk>>

CheckedToInt ==
    /\ pc = "checked_modulus"
    /\ \E a \in AnyMtgyInts :
         /\ inp' = [n |-> inp.n, limbs |-> out.mg.limbs, a |-> a]
         /\ out' = IF to_int_asserts(out.mg, a)
                   THEN [panic |-> FALSE, v |-> to_int(out.mg, a)]
                   ELSE [panic |-> TRUE]
    /\ pc' = "done"
    /\ op' = "to_int"
    /\ UNCHANGED <<bits, junk>>

NextChecked ==
    CheckedNew \/ CheckedMul \/ CheckedSqr \/ CheckedPow \/ CheckedToInt \/ Return

SpecChecked == InitMtgy /\ [][NextChecked]_vars

(***************************************************************************)
(* Calls that record the limbs of their read-only arguments (modulus, base, *)
(* operands, exponent) before the call, in inp.frame, and after it, in      *)
(* out.frame.                                                               *)
(***************************************************************************)
\* the moduli of these calls: one limb, the smallest of two limbs, the largest
FrameModuli == {B - 1, B + 1, MaxModulus}

\* the exponents given to the two modpow drivers
FrameExponents == {0, 1, 5, 64}

FrameRedc ==
    /\ pc = "idle"
    /\ \E m \in FrameModuli, nquote0 \in LimbSet :
         /\ (m * nquote0) % B = B - 1
         /\ \E tv \in {m * a : a \in Residues(m)} :
              /\ inp' = [frame |-> ToLimbs(m, abs_size(m)), t |-> tv]
              /\ out' = [frame |-> Slice(redc(ToLimbs(m, abs_size(m))
                                                 \o ToLimbs(tv, 2 * abs_size(m))
                                                 \o Fresh(abs_size(m)),
                                              3 * abs_size(m), abs_size(m), 0, nquote0,
                                              abs_size(m)),
                                         0, abs_size(m))]
    /\ pc' = "done"
    /\ op' = "redc"
    /\ UNCHANGED <<bits, junk>>

FrameMul ==
    /\ pc = "idle"
    /\ \E m \in FrameModuli :
         \E a \in Residues(m), b \in Residues(m) :
            /\ inp' = [frame |-> to_mtgy(MtgyModulus_new(m), a) \o to_mtgy(MtgyModulus_new(m), b)
                                    \o ToLimbs(m, abs_size(m))]
            /\ out' = [frame |->
                         Slice(MtgyModulus_mul_memory(MtgyModulus_new(m),
                                                      to_mtgy(MtgyModulus_new(m), a),
                                                      to_mtgy(MtgyModulus_new(m), b)),
                               0, 2 * abs_size(m))
                         \o Slice(MtgyModulus_redc_memory(MtgyModulus_new(m),
                                     Slice(MtgyModulus_mul_memory(MtgyModulus_new(m),
                                                                  to_mtgy(MtgyModulus_new(m), a),
                                                                  to_mtgy(MtgyModulus_new(m), b)),
                                           2 * abs_size(m), 2 * abs_size(m))),
                                  0, abs_size(m))]
    /\ pc' = "done"
    /\ op' = "mul"
    /\ UNCHANGED <<bits, junk>>

FrameSqr ==
    /\ pc = "idle"
    /\ \E m \in FrameModuli :
         \E a \in Residues(m) :
            /\ inp' = [frame |-> to_mtgy(MtgyModulus_new(m), a)]
            /\ out' = [frame |-> Slice(MtgyModulus_sqr_memory(MtgyModulus_new(m),
                                                              to_mtgy(MtgyModulus_new(m), a)),
                                       0, abs_size(m))]
    /\ pc' = "done"
    /\ op' = "sqr"
    /\ UNCHANGED <<bits, junk>>

FrameToInt ==
    /\ pc = "idle"
    /\ \E m \in FrameModuli :
         \E a \in Residues(m) :
            /\ inp' = [frame |-> ToLimbs(m, abs_size(m))]
            /\ out' = [frame |-> Slice(MtgyModulus_redc_memory(MtgyModulus_new(m),
                                                               ToLimbs(a, 2 * abs_size(m))),
                                       0, abs_size(m))]
    /\ pc' = "done"
    /\ op' = "to_int"
    /\ UNCHANGED <<bits, junk>>

FramePow ==
    /\ pc = "idle"
    /\ \E m \in FrameModuli :
         \E a \in Residues(m), e \in FrameExponents :
            /\ inp' = [frame |-> ToLimbs(m, abs_size(m)) \o to_mtgy(MtgyModulus_new(m), a)
                                    \o ToLimbs(e, abs_size(e)),
                       e |-> e]
            /\ out' = [frame |-> Slice(MtgyModulus_pow_memory(MtgyModulus_new(m),
                                                              to_mtgy(MtgyModulus_new(m), a), e),
                                       abs_size(m), 2 * abs_size(m) + abs_size(e))]
    /\ pc' = "done"
    /\ op' = "pow"
    /\ UNCHANGED <<bits, junk>>

FrameModpow ==
    /\ pc = "idle"
    /\ \E m \in FrameModuli :
         \E a \in ModpowBases(m), e \in FrameExponents :
            /\ inp' = [frame |-> ToLimbs(m, abs_size(m)) \o ToLimbs(a, abs_size(m))
                                    \o ToLimbs(e, abs_size(e)),
                       e |-> e]
            /\ out' = [frame |-> Slice(modpow(Fresh(abs_size(m)) \o ToLimbs(m, abs_size(m))
                                                  \o ToLimbs(a, abs_size(m))
                                                  \o ToLimbs(e, abs_size(e)),
                                              0, abs_size(m), abs_size(m), 2 * abs_size(m),
                                              abs_size(m), 3 * abs_size(m), abs_size(e)),
                                       abs_size(m), 2 * abs_size(m) + abs_size(e))]
    /\ pc' = "done"
    /\ op' = "modpow"
    /\ UNCHANGED <<bits, junk>>

NextFrame ==
    \/ FrameRedc \/ FrameMul \/ FrameSqr \/ FrameToInt \/ FramePow \/ FrameModpow
    \/ Return

SpecFrame == InitMtgy /\ [][NextFrame]_vars

(***************************************************************************)
(* montgomery.rs: Montgomery arithmetic on whole integers                   *)
(***************************************************************************)
\* Int / Int and Int % Int: truncated division, the remainder has the sign of
\* the dividend
Int_div(a, b) ==
    IF (a >= 0) = (b > 0) THEN (IF a >= 0 THEN a ELSE -a) \div (IF b > 0 THEN b ELSE -b)
    ELSE -((IF a >= 0 THEN a ELSE -a) \div (IF b > 0 THEN b ELSE -b))

Int_rem(a, b) == a - b * Int_div(a, b)

\* Int::bit(i)
Int_bit(v, i) == (v \div 2 ^ i) % 2 = 1

RECURSIVE extended_gcd_loop(_, _, _, _, _, _)
\* while r != 0 { quotient = old_r / r; (old_r, r) = (r, old_r - quotient * r);
\*                (old_s, s) = (s, old_s - quotient * s); same for t }
extended_gcd_loop(old_r, r, old_s, s_, old_t, t_) ==
    IF r = 0 THEN [gcd |-> old_r, c1 |-> old_s, c2 |-> old_t]
    ELSE extended_gcd_loop(r, old_r - Int_div(old_r, r) * r,
                           s_, old_s - Int_div(old_r, r) * s_,
                           t_, old_t - Int_div(old_r, r) * t_)

extended_gcd(a, b) == extended_gcd_loop(a, b, 1, 0, 0, 1)

\* normalize without the correction of a negative remainder
normalize_remainder_only(a, n) == Int_rem(a, n)

\* the standard representation of a (mod n)
normalize(a, n) == IF Int_rem(a, n) < 0 THEN Int_rem(a, n) + n ELSE Int_rem(a, n)

\* Option<Int>: Some(c mod n) when gcd(a, n) = 1
inverse(a, n) ==
    IF extended_gcd(a, n).gcd = 1
    THEN [some |-> TRUE, v |-> normalize(extended_gcd(a, n).c1, n)]
    ELSE [some |-> FALSE]

\* bits = limbs_count * Limb::BITS with limbs_count = ceil(bit_length / Limb::BITS)
Montgomery_bits(modulus) == ((BitLength(modulus) + bits - 1) \div bits) * bits

\* Montgomery::new; both unwrap() calls panic on None
Montgomery_new(modulus) ==
    IF inverse(modulus, 2 ^ Montgomery_bits(modulus)).some
         /\ inverse(2 ^ Montgomery_bits(modulus), modulus).some
    THEN [panic |-> FALSE,
          modulus |-> modulus,
          modulus_quote |-> 2 ^ Montgomery_bits(modulus)
                              - inverse(modulus, 2 ^ Montgomery_bits(modulus)).v,
          bits |-> Montgomery_bits(modulus),
          lomask |-> 2 ^ Montgomery_bits(modulus) - 1,
          r |-> 2 ^ Montgomery_bits(modulus),
          r_inv |-> inverse(2 ^ Montgomery_bits(modulus), modulus).v]
    ELSE [panic |-> TRUE]

\* a >>= bits; if a >= modulus { a -= modulus }
Montgomery_redc_shift(m, a) ==
    IF a \div 2 ^ m.bits >= m.modulus THEN a \div 2 ^ m.bits - m.modulus
    ELSE a \div 2 ^ m.bits

\* tmp = a; a *= modulus_quote; a &= lomask; a *= modulus; a += tmp; then the shift
Montgomery_redc(m, a) ==
    Montgomery_redc_shift(m, ((a * m.modulus_quote) % (m.lomask + 1)) * m.modulus + a)

Montgomery_mul(m, a, b) == Montgomery_redc(m, a * b)

Montgomery_sq(m, a) == Montgomery_redc(m, a * a)

to_montgomery(m, a) == Int_rem(a * m.r, m.modulus)

to_natural(m, a) == Int_rem(a * m.r_inv, m.modulus)

RECURSIVE lr_table(_, _, _)
\* table = [1, to_montgomery(base)]; for _ in 2..(1 << k): push(last * table[1])
\* (1-based here: table[i + 1] is the code's table[i])
lr_table(m, table, size) ==
    IF Len(table) >= size THEN table
    ELSE lr_table(m, Append(table, Montgomery_mul(m, table[Len(table)], table[2])), size)

RECURSIVE lr_block_value(_, _, _, _)
\* for j in 0..k: if exp.bit(i * k + j) { block_value |= 1 << j }
lr_block_value(exp, i, j, k) ==
    IF j >= k THEN 0
    ELSE (IF Int_bit(exp, i * k + j) THEN 2 ^ j ELSE 0) + lr_block_value(exp, i, j + 1, k)

RECURSIVE lr_sq_times(_, _, _)
\* for _ in 0..k: m.sq(&mut result)
lr_sq_times(m, result, k) ==
    IF k = 0 THEN result ELSE lr_sq_times(m, Montgomery_sq(m, result), k - 1)

\* if block_value != 0 { m.mul(&mut result, &table[block_value]) }
lr_block_mul(m, result, table, bv) ==
    IF bv # 0 THEN Montgomery_mul(m, result, table[bv + 1]) ELSE result

RECURSIVE lr_blocks(_, _, _, _, _, _)
\* for i in (0..block_count).rev(); called with i = block_count
lr_blocks(m, result, table, exp, k, i) ==
    IF i = 0 THEN result
    ELSE lr_blocks(m,
                   lr_block_mul(m, lr_sq_times(m, result, k), table,
                                lr_block_value(exp, i - 1, 0, k)),
                   table, exp, k, i - 1)

\* result = to_montgomery(1); block_count = ceil(bit_length(exp) / k)
modpow_lr_k_ary_with_k_mgmy_run(m, base, exp, k) ==
    to_natural(m, lr_blocks(m, to_montgomery(m, 1),
                            lr_table(m, <<1, to_montgomery(m, base)>>, 2 ^ k),
                            exp, k, (BitLength(exp) + k - 1) \div k))

modpow_lr_k_ary_with_k_mgmy(base, exp, modulus, k) ==
    IF Montgomery_new(modulus).panic THEN [panic |-> TRUE]
    ELSE [panic |-> FALSE,
          v |-> modpow_lr_k_ary_with_k_mgmy_run(Montgomery_new(modulus), base, exp, k)]

\* the odd moduli of the whole-integer calls: every one of one limb, and of two
\* limbs the smallest, two in the middle and the largest
IntModuli == {n \in 1 .. B : n % 2 = 1} \cup {B + 1, 3 * B + 1, B * B - B - 1, B * B - 1}

\* the largest exponent and the largest window size
MaxIntExponent == 20

MaxWindow == 3

MontgomeryRoundTrip ==
    /\ pc = "idle"
    /\ \E n \in IntModuli :
         \E a \in 0 .. (n - 1) :
            /\ inp' = [n |-> n, a |-> a]
            /\ out' = IF Montgomery_new(n).panic THEN [panic |-> TRUE]
                      ELSE [panic |-> FALSE,
                            v |-> to_natural(Montgomery_new(n),
                                             to_montgomery(Montgomery_new(n), a))]
    /\ pc' = "done"
    /\ op' = "to_natural"
    /\ UNCHANGED <<bits, junk>>

MontgomeryMul ==
    /\ pc = "idle"
    /\ \E n \in IntModuli :
         \E a \in 0 .. (n - 1), b \in Residues(n) :
            /\ inp' = [n |-> n, a |-> a, b |-> b]
            /\ out' = IF Montgomery_new(n).panic THEN [panic |-> TRUE]
                      ELSE [panic |-> FALSE,
                            v |-> to_natural(Montgomery_new(n),
                                    Montgomery_mul(Montgomery_new(n),
                                                   to_montgomery(Montgomery_new(n), a),
                                                   to_montgomery(Montgomery_new(n), b)))]
    /\ pc' = "done"
    /\ op' = "mul"
    /\ UNCHANGED <<bits, junk>>

MontgomerySq ==
    /\ pc = "idle"
    /\ \E n \in IntModuli :
         \E a \in 0 .. (n - 1) :
            /\ inp' = [n |-> n, a |-> a]
            /\ out' = IF Montgomery_new(n).panic THEN [panic |-> TRUE]
                      ELSE [panic |-> FALSE,
                            v |-> to_natural(Montgomery_new(n),
                                    Montgomery_sq(Montgomery_new(n),
                                                  to_montgomery(Montgomery_new(n), a)))]
    /\ pc' = "done"
    /\ op' = "sq"
    /\ UNCHANGED <<bits, junk>>

MontgomeryModpow ==
    /\ pc = "idle"
    /\ \E n \in IntModuli :
         \E base \in Residues(n), exp \in 0 .. MaxIntExponent, k \in 1 .. MaxWindow :
            /\ inp' = [n |-> n, a |-> base, e |-> exp, k |-> k]
            /\ out' = modpow_lr_k_ary_with_k_mgmy(base, exp, n, k)
    /\ pc' = "done"
    /\ op' = "modpow"
    /\ UNCHANGED <<bits, junk>>

NextMontgomery ==
    \/ MontgomeryRoundTrip \/ MontgomeryMul \/ MontgomerySq \/ MontgomeryModpow
    \/ Return

SpecMontgomery == InitMtgy /\ [][NextMontgomery]_vars

(***************************************************************************)
(* The sizes handed from one multiplication routine to the next.  A call is *)
(* a record [fn, xs, ys]; out.stack holds the calls made and not yet        *)
(* executed, the next one first.  Executing a call replaces it by the calls *)
(* its body makes, in program order.                                        *)
(***************************************************************************)
MaxDispatchLen == 64    \* largest operand size given to mul, mul_rec, sqr, sqr_rec

Call(fn, xs, ys) == [fn |-> fn, xs |-> xs, ys |-> ys]

\* the split with the low part taken as the smaller half
toom22_split_low_floor(xs, ys) ==
    [xh |-> xs - xs \div 2, nl |-> xs \div 2, yh |-> ys - xs \div 2]

\* let xh = xs >> 1; let nl = xs - xh; let yh = ys - nl;
toom22_split(xs, ys) ==
    [xh |-> xs \div 2, nl |-> xs - xs \div 2, yh |-> ys - (xs - xs \div 2)]

\* the test with the bound the comment in mul warns against
is_unbalanced_by_two(xs, ys) == xs >= ys * 2

\* (xs * 2) >= (ys * 3)
is_unbalanced(xs, ys) == xs * 2 >= ys * 3

\* the three debug_assert! of mul_toom22
mul_toom22_asserts(xs, ys) ==
    /\ xs >= ys /\ xs < ys * 2
    /\ 0 < toom22_split(xs, ys).xh /\ toom22_split(xs, ys).xh <= toom22_split(xs, ys).nl
    /\ 0 < toom22_split(xs, ys).yh /\ toom22_split(xs, ys).yh <= toom22_split(xs, ys).xh

\* the debug_assert! at the entry of each routine (those on sizes)
call_asserts(c) ==
    CASE c.fn = "mul" -> c.xs >= c.ys /\ c.ys > 0
      [] c.fn = "mul_toom22" -> mul_toom22_asserts(c.xs, c.ys)
      [] c.fn = "mul_unbalanced" -> c.xs > c.ys
      [] c.fn = "sqr" -> c.xs > 0
      [] OTHER -> TRUE

mul_calls(xs, ys) ==
    IF ys <= TOOM22_THRESHOLD THEN <<Call("mul_basecase", xs, ys)>>
    ELSE IF is_unbalanced(xs, ys) THEN <<Call("mul_unbalanced", xs, ys)>>
    ELSE <<Call("mul_toom22", xs, ys)>>

mul_rec_calls(xs, ys) ==
    IF ys < TOOM22_THRESHOLD THEN <<Call("mul_basecase", xs, ys)>>
    ELSE IF is_unbalanced(xs, ys) THEN <<Call("mul_unbalanced", xs, ys)>>
    ELSE <<Call("mul_toom22", xs, ys)>>

\* z1 = zx1 * zy1 (nl x nl), z0 = x0 * y0 (nl x nl), z2 = x1 * y1 (xh x yh)
mul_toom22_calls(xs, ys) ==
    <<Call("mul_rec", toom22_split(xs, ys).nl, toom22_split(xs, ys).nl),
      Call("mul_rec", toom22_split(xs, ys).nl, toom22_split(xs, ys).nl),
      Call("mul_rec", toom22_split(xs, ys).xh, toom22_split(xs, ys).yh)>>

RECURSIVE mul_unbalanced_loop_calls(_, _)
\* while xs >= ys * 2 { mul_toom22(.., ys, .., ys); xs -= ys }; then the last
\* product, larger size first
mul_unbalanced_loop_calls(xs, ys) ==
    IF ys > 0 /\ xs >= ys * 2
    THEN <<Call("mul_toom22", ys, ys)>> \o mul_unbalanced_loop_calls(xs - ys, ys)
    ELSE IF xs >= ys THEN <<Call("mul_rec", xs, ys)>>
    ELSE <<Call("mul_rec", ys, xs)>>

\* mul_toom22(.., ys, .., ys); xs -= ys; the loop
mul_unbalanced_calls(xs, ys) ==
    <<Call("mul_toom22", ys, ys)>> \o mul_unbalanced_loop_calls(xs - ys, ys)

sqr_calls(xs) ==
    IF xs <= TOOM22_THRESHOLD THEN <<Call("mul_basecase", xs, xs)>>
    ELSE <<Call("sqr_toom2", xs, xs)>>

sqr_rec_calls(xs) ==
    IF xs < TOOM22_THRESHOLD THEN <<Call("mul_basecase", xs, xs)>>
    ELSE <<Call("sqr_toom2", xs, xs)>>

\* xh = xs >> 1; xl = xs - xh; z1 = x0 * x1 (xl x xh), z0 = x0^2, z2 = x1^2
sqr_toom2_calls(xs) ==
    <<Call("mul_rec", xs - xs \div 2, xs \div 2),
      Call("sqr_rec", xs - xs \div 2, xs - xs \div 2),
      Call("sqr_rec", xs \div 2, xs \div 2)>>

\* the calls the body of call c makes; a failed debug_assert! ends the run
calls_of(c) ==
    IF ~call_asserts(c) THEN <<>>
    ELSE CASE c.fn = "mul" -> mul_calls(c.xs, c.ys)
           [] c.fn = "mul_rec" -> mul_rec_calls(c.xs, c.ys)
           [] c.fn = "mul_toom22" -> mul_toom22_calls(c.xs, c.ys)
           [] c.fn = "mul_unbalanced" -> mul_unbalanced_calls(c.xs, c.ys)
           [] c.fn = "sqr" -> sqr_calls(c.xs)
           [] c.fn = "sqr_rec" -> sqr_rec_calls(c.xs)
           [] c.fn = "sqr_toom2" -> sqr_toom2_calls(c.xs)
           [] OTHER -> <<>>

Max(a, b) == IF a >= b THEN a ELSE b

\* where the scratch of the calls made by call c starts, counted from the
\* scratch c was given: z1 = scratch, scratch_out = scratch + 2 * nl (mul_toom22)
\* or scratch + 2 * xl (sqr_toom2); every other routine hands its scratch on
scratch_out(c) ==
    CASE c.fn = "mul_toom22" -> 2 * toom22_split(c.xs, c.ys).nl
      [] c.fn = "sqr_toom2" -> 2 * (c.xs - c.xs \div 2)
      [] OTHER -> 0

RECURSIVE scratch_end(_)
RECURSIVE scratch_end_calls(_)
\* the furthest any of the calls cs reaches into the scratch they share; a call
\* repeated with the same sizes is followed once
scratch_end_calls(cs) ==
    IF cs = <<>> THEN 0
    ELSE IF \E i \in 2 .. Len(cs) : cs[i] = Head(cs) THEN scratch_end_calls(Tail(cs))
    ELSE Max(scratch_end(Head(cs)), scratch_end_calls(Tail(cs)))

\* the number of limbs, counted from the scratch call c was given, up to the
\* last one c or a call below it touches: z1 is written in full by its mul_rec
scratch_end(c) == scratch_out(c) + scratch_end_calls(calls_of(c))

\* scratch = tmp.allocate((xs * 2) as usize) in mul and in sqr
scratch_allocated(xs) == xs * 2

RECURSIVE unbalanced_tail(_, _)
\* xs when the loop `while xs >= ys * 2 { ..; xs -= ys }` of mul_unbalanced ends
unbalanced_tail(xs, ys) ==
    IF ys > 0 /\ xs >= ys * 2 THEN unbalanced_tail(xs - ys, ys) ELSE xs

\* the limbs of w_tmp = tmp.allocate(ys * 3) the last product of mul_unbalanced
\* writes, after xs -= ys for the first block
unbalanced_tail_limbs(xs, ys) == unbalanced_tail(xs - ys, ys) + ys

\* mul(xs, ys) or mul_rec(xs, ys) is entered with xs >= ys > 0
DispatchMul ==
    /\ pc = "idle"
    /\ \E fn \in {"mul", "mul_rec"}, xs \in 1 .. MaxDispatchLen, ys \in 1 .. MaxDispatchLen :
         /\ xs >= ys
         /\ op' = fn
         /\ inp' = [xs |-> xs, ys |-> ys]
         /\ out' = [stack |-> <<Call(fn, xs, ys)>>, executed |-> 0]
    /\ pc' = "running"
    /\ UNCHANGED <<bits, junk>>

\* sqr(xs) or sqr_rec(xs) is entered with xs > 0
DispatchSqr ==
    /\ pc = "idle"
    /\ \E fn \in {"sqr", "sqr_rec"}, xs \in 1 .. MaxDispatchLen :
         /\ op' = fn
         /\ inp' = [xs |-> xs, ys |-> xs]
         /\ out' = [stack |-> <<Call(fn, xs, xs)>>, executed |-> 0]
    /\ pc' = "running"
    /\ UNCHANGED <<bits, junk>>

\* the next pending call runs: its own calls take its place
DispatchStep ==
    /\ pc = "running"
    /\ out.stack # <<>>
    /\ out' = [stack |-> calls_of(Head(out.stack)) \o Tail(out.stack),
               executed |-> out.executed + 1]
    /\ UNCHANGED <<bits, junk, pc, op, inp>>

\* no call is pending: the entry call returns
DispatchEnd ==
    /\ pc = "running"
    /\ out.stack = <<>>
    /\ pc' = "done"
    /\ UNCHANGED <<bits, junk, op, inp, out>>

\* mul_toom22 computes its split from the sizes it is given
CallToom22Split ==
    /\ pc = "idle"
    /\ \E xs \in 1 .. MaxDispatchLen, ys \in 1 .. MaxDispatchLen :
         /\ inp' = [xs |-> xs, ys |-> ys]
         /\ out' = toom22_split(xs, ys)
    /\ pc' = "done"
    /\ op' = "toom22_split"
    /\ UNCHANGED <<bits, junk>>

\* the routine each of the four dispatchers hands the sizes (xs, ys), (xs, xs) to
CallSelect ==
    /\ pc = "idle"
    /\ \E xs \in 1 .. MaxDispatchLen, ys \in 1 .. MaxDispatchLen :
         /\ xs >= ys
         /\ inp' = [xs |-> xs, ys |-> ys]
         /\ out' = [mul |-> Head(mul_calls(xs, ys)).fn,
                    mul_rec |-> Head(mul_rec_calls(xs, ys)).fn,
                    sqr |-> Head(sqr_calls(xs)).fn,
                    sqr_rec |-> Head(sqr_rec_calls(xs)).fn]
    /\ pc' = "done"
    /\ op' = "select"
    /\ UNCHANGED <<bits, junk>>

MaxScratchLevels == 11  \* the long operands are 19 * 2^k + 1 limbs, k up to MaxScratchLevels

\* the operand sizes above the threshold whose scratch use is followed: the
\* short ones, and those that are odd at every level of the recursion
ScratchSizes ==
    ((TOOM22_THRESHOLD + 1) .. MaxDispatchLen)
        \cup {19 * 2 ^ k + 1 : k \in 1 .. MaxScratchLevels}

\* mul(xs, ys) or sqr(xs) above the threshold: the scratch it allocates, the
\* scratch its calls touch, and the limbs of w_tmp a mul_unbalanced would write
CallScratch ==
    /\ pc = "idle"
    /\ \E fn \in {"mul", "sqr"}, xs \in ScratchSizes :
         \E ys \in IF fn = "sqr" THEN {xs}
                   ELSE IF xs <= MaxDispatchLen THEN (TOOM22_THRESHOLD + 1) .. xs
                   ELSE {xs - 1, xs} :
            /\ inp' = [fn |-> fn, xs |-> xs, ys |-> ys]
            /\ out' = [allocated |-> scratch_allocated(xs),
                       touched |-> scratch_end(Call(fn, xs, ys)),
                       unbalanced |-> is_unbalanced(xs, ys),
                       tail |-> unbalanced_tail_limbs(xs, ys)]
    /\ pc' = "done"
    /\ op' = "scratch"
    /\ UNCHANGED <<bits, junk>>

NextDispatch ==
    \/ DispatchMul \/ DispatchSqr \/ DispatchStep \/ DispatchEnd \/ CallToom22Split
    \/ CallSelect \/ CallScratch \/ Return

SpecDispatch == InitMul /\ [][NextDispatch]_vars

\* a running multiplication is not suspended for ever
SpecDispatchFair == SpecDispatch /\ WF_vars(DispatchStep) /\ WF_vars(DispatchEnd)

(***************************************************************************)
(* The exponent scan of the two modpow drivers on its own: the block values *)
(* of every window and the limbs of b they are read from.  Layout: b at 0   *)
(* (bn limbs), then limbs that do not belong to b.                          *)
(***************************************************************************)
MaxScanExponent == 300  \* largest exponent scanned
ScanGuard == 4          \* limbs behind b

\* the limbs of b read in window i: bp.offset(p / BITS) for p = i*k+j < exp_bit_length
block_reads(i, k, exp_bit_length) ==
    {(i * k + j) \div bits : j \in {j \in 0 .. (k - 1) : i * k + j < exp_bit_length}}

\* block_value of window i, for i = 0 .. block_count - 1 (at index i + 1), with
\* block_count = (exp_bit_length + k - 1) / k
scan_values(mem, bp, bn, k) ==
    [i \in 1 .. ((num_base_digits(mem, bp, bn) + k - 1) \div k) |->
        block_value(mem, bp, i - 1, 0, k, num_base_digits(mem, bp, bn))]

scan_reads(mem, bp, bn, k) ==
    UNION {block_reads(i, k, num_base_digits(mem, bp, bn)) :
             i \in 0 .. ((num_base_digits(mem, bp, bn) + k - 1) \div k - 1)}

\* for _ in 0..k { sqr(w) }
window_sqr_ops(i, k) == [j \in 1 .. k |-> [op |-> "sqr", window |-> i, entry |-> 0]]

\* if block_value != 0 { mul(w, table[block_value]) }
window_mul_ops(i, value) ==
    IF value # 0 THEN <<[op |-> "mul", window |-> i, entry |-> value]>> ELSE <<>>

RECURSIVE window_ops_mul_first(_, _, _, _, _)
\* the loop with the multiplication ahead of the squarings
window_ops_mul_first(mem, bp, i, k, exp_bit_length) ==
    IF i < 0 THEN <<>>
    ELSE window_mul_ops(i, block_value(mem, bp, i, 0, k, exp_bit_length))
           \o window_sqr_ops(i, k)
           \o window_ops_mul_first(mem, bp, i - 1, k, exp_bit_length)

RECURSIVE window_ops(_, _, _, _, _)
\* for i in (0..block_count).rev(): the modular squarings and multiplications of
\* w, in the order they are executed
window_ops(mem, bp, i, k, exp_bit_length) ==
    IF i < 0 THEN <<>>
    ELSE window_sqr_ops(i, k)
           \o window_mul_ops(i, block_value(mem, bp, i, 0, k, exp_bit_length))
           \o window_ops(mem, bp, i - 1, k, exp_bit_length)

window_loop_ops(mem, bp, bn, k) ==
    window_ops(mem, bp, (num_base_digits(mem, bp, bn) + k - 1) \div k - 1, k,
               num_base_digits(mem, bp, bn))

CallScan ==
    /\ pc = "idle"
    /\ \E b \in 0 .. MaxScanExponent, k \in {mtgy_k, modpow_k} :
         \E bn \in abs_size(b) .. (abs_size(b) + 1) :
            /\ inp' = [b |-> b, bn |-> bn, k |-> k]
            /\ out' = [values |-> scan_values(ToLimbs(b, bn) \o Fresh(ScanGuard), 0, bn, k),
                       reads |-> scan_reads(ToLimbs(b, bn) \o Fresh(ScanGuard), 0, bn, k),
                       trace |-> window_loop_ops(ToLimbs(b, bn) \o Fresh(ScanGuard), 0, bn, k)]
    /\ pc' = "done"
    /\ op' = "scan"
    /\ UNCHANGED <<bits, junk>>

NextScan == CallScan \/ Return

SpecScan == InitMul /\ [][NextScan]_vars

(***************************************************************************)
(* Calls of the kernels on longer operands: the one-limb-at-a-time loop     *)
(* next to the loop unrolled by four, and mul_1 with its output inside its  *)
(* input.                                                                   *)
(***************************************************************************)
MaxUnrollLen == 6   \* longest operand given to the unrolled kernels

UnrollVectors(n) == [1 .. n -> {1, B - 1}]

\* the aliasing mul_1 admits: the output is the input or starts after it
same_or_incr(wp, wn, xp, xn) == wp = xp \/ wp > xp

KernelOut(r, wp, n) == [w |-> Slice(r.mem, wp, n), carry |-> r.carry]

\* mul_1 with {wp, n} = {xp + d, n}: d = 0 is in place, 0 < d < n is an output
\* that overlaps the input and starts at a later limb
CallMul1Alias ==
    /\ pc = "idle"
    /\ \E n \in 1 .. MaxUnrollLen :
         \E d \in 0 .. (n - 1), x \in UnrollVectors(n), vl \in LimbSample :
            /\ same_or_incr(d, n, 0, n)
            /\ inp' = [n |-> n, d |-> d, x |-> x, vl |-> vl]
            /\ out' = [generic |-> KernelOut(mul_1_generic(x \o Fresh(d), d, 0, n, vl), d, n),
                       unrolled |-> KernelOut(mul_1_generic_unroll_4(x \o Fresh(d), d, 0, n, vl),
                                              d, n)]
    /\ pc' = "done"
    /\ op' = "mul_1_alias"
    /\ UNCHANGED <<bits, junk>>

CallMul1Unroll ==
    /\ pc = "idle"
    /\ \E n \in 1 .. MaxUnrollLen :
         \E x \in UnrollVectors(n), w \in {Fill(n, 0), Fresh(n)}, vl \in LimbSample :
            /\ inp' = [n |-> n, x |-> x, w |-> w, vl |-> vl]
            /\ out' = [generic |-> KernelOut(mul_1_generic(x \o w, n, 0, n, vl), n, n),
                       unrolled |-> KernelOut(mul_1_generic_unroll_4(x \o w, n, 0, n, vl), n, n)]
    /\ pc' = "done"
    /\ op' = "mul_1"
    /\ UNCHANGED <<bits, junk>>

CallAddmul1Unroll ==
    /\ pc = "idle"
    /\ \E n \in 1 .. MaxUnrollLen :
         \E x \in UnrollVectors(n), w \in [1 .. n -> {0, B - 1}], vl \in LimbSample :
            /\ inp' = [n |-> n, x |-> x, w |-> w, vl |-> vl]
            /\ out' = [generic |-> KernelOut(addmul_1_generic(x \o w, n, 0, n, vl), n, n),
                       unrolled |-> KernelOut(addmul_1_generic_unroll_4(x \o w, n, 0, n, vl),
                                              n, n)]
    /\ pc' = "done"
    /\ op' = "addmul_1"
    /\ UNCHANGED <<bits, junk>>

NextUnroll == CallMul1Alias \/ CallMul1Unroll \/ CallAddmul1Unroll \/ Return

SpecUnroll == InitKernel /\ [][NextUnroll]_vars

(***************************************************************************)
(* C9: mul_1 law.  After mul_1(w, x, n, v) with w disjoint from x,          *)
(* carry * B^n + value(w[0..n]) = v * value(x[0..n]).                       *)
(***************************************************************************)
Mul1Law ==
    (pc = "done" /\ op = "mul_1") =>
        out.carry * B ^ inp.n + Value(out.w) = inp.vl * Value(inp.x)

\* a call of the longest length that returns a nonzero carry
Mul1Witness ==
    /\ pc = "done" /\ op = "mul_1"
    /\ inp.n = MaxLen /\ out.carry > 0 /\ out.w # inp.w

(***************************************************************************)
(* C10: addmul_1 law.  After addmul_1(w, x, n, v) the returned carry c and  *)
(* the new w satisfy c * B^n + value(w_new) = value(w_old) + v * value(x).  *)
(***************************************************************************)
Addmul1Law ==
    (pc = "done" /\ op = "addmul_1") =>
        out.carry * B ^ inp.n + Value(out.w) = Value(inp.w) + inp.vl * Value(inp.x)

\* a call where both the multiply carry and the addition carry are at their largest
Addmul1Witness ==
    /\ pc = "done" /\ op = "addmul_1"
    /\ inp.n = MaxLen /\ out.carry = B - 1

(***************************************************************************)
(* C4: all multipliers agree with the exact integer product.  For all      *)
(* sizes valid for each routine and all limb values, mul_basecase,          *)
(* mul_toom22, mul_unbalanced and the dispatcher mul write xs + ys limbs    *)
(* whose little-endian value is exactly x * y.                              *)
(***************************************************************************)
MulOps == {"mul_basecase", "mul_toom22", "mul_unbalanced", "mul"}

MulExact ==
    (pc = "done" /\ op \in MulOps) =>
        Value(out.w) = Value(inp.x) * Value(inp.y)

(***************************************************************************)
(* C7: squaring identity.  For every xs > 0 and every x of xs limbs, sqr    *)
(* (and sqr_rec / sqr_toom2) writes 2 * xs limbs whose value is exactly     *)
(* x * x.                                                                   *)
(***************************************************************************)
SqrOps == {"sqr", "sqr_rec", "sqr_toom2"}

RECURSIVE ColumnSum(_, _, _, _, _)
\* sum of x[i] * y[k - i + 1] over i in lo .. hi: the limb pairs of weight B^(k-1)
ColumnSum(x, y, k, lo, hi) ==
    IF lo > hi THEN 0
    ELSE IF lo = hi THEN x[lo] * y[k - lo + 1]
    ELSE LET mid == (lo + hi) \div 2
         IN  ColumnSum(x, y, k, lo, mid) + ColumnSum(x, y, k, mid + 1, hi)

Min(a, b) == IF a <= b THEN a ELSE b

RECURSIVE ProductFrom(_, _, _, _)
ProductFrom(x, y, k, c) ==
    IF k > Len(x) + Len(y) THEN <<>>
    ELSE LET t == ColumnSum(x, y, k, Max(1, k - Len(y) + 1), Min(k, Len(x))) + c
         IN  <<t % B>> \o ProductFrom(x, y, k + 1, t \div B)

\* the Len(x) + Len(y) limbs of the exact product x * y, by column sums
\* (the values themselves do not fit a machine integer for long operands)
Product(x, y) == ProductFrom(x, y, 1, 0)

SqrExact ==
    (pc = "done" /\ op \in SqrOps) => out.w = Product(inp.x, inp.x)

(***************************************************************************)
(* C8: single-limb inverse.  For every odd limb value x and every limb      *)
(* width W >= 2, inv1(x) * x = 1 modulo 2^W.                                *)
(***************************************************************************)
InvOps == {"inv1", "single_limb_montgomery_inverse"}

Inv1Law ==
    (pc = "done" /\ op \in InvOps) => (out.y * inp.x) % B = 1

\* a call at the widest limb where the last step of inv1 sets the top bit of y
Inv1Witness ==
    /\ pc = "done" /\ op = "inv1"
    /\ bits = MaxInvBits /\ inp.x > 1 /\ out.y >= 2 ^ (bits - 1)

(***************************************************************************)
(* C1: Montgomery reduction contract.  For every limb count n >= 1, every   *)
(* odd N occupying n limbs, nquote0 with N * nquote0 = -1 (mod B) and every *)
(* t of 2n limbs with value < N * R (R = B^n), redc writes w with           *)
(* w = t * R^(-1) mod N, i.e. w * R = t (mod N), and 0 <= w < N.            *)
(***************************************************************************)
RedcContract ==
    (pc = "done" /\ op = "redc") =>
        /\ Value(out.w) < inp.n
        /\ (Value(out.w) * B ^ inp.r_limbs) % inp.n = inp.t % inp.n

(***************************************************************************)
(* C3: Montgomery multiplication is a homomorphism.  For every odd positive *)
(* N and all 0 <= a, b < N, MtgyModulus::mul(to_mtgy(a), to_mtgy(b)) equals *)
(* to_mtgy((a * b) mod N), i.e. to_int of the product is (a * b) mod N.     *)
(***************************************************************************)
MulHomomorphism ==
    /\ (pc = "mtgy" /\ op = "mul") => out.x = to_mtgy(out.mg, (inp.a * inp.b) % inp.n)
    /\ (pc = "done" /\ op = "to_int" /\ out.of = "mul") => out.v = (inp.a * inp.b) % inp.n

(***************************************************************************)
(* C6: Montgomery round trip.  For every odd positive N and every           *)
(* 0 <= a < N, to_int(to_mtgy(a)) = a.                                      *)
(***************************************************************************)
RoundTrip ==
    (pc = "done" /\ op = "to_int" /\ out.of = "to_mtgy") => out.v = inp.a

\* the largest residue of the largest modulus, whose Montgomery form fills both
\* limbs, has been converted there and back
RoundTripWitness ==
    /\ pc = "done" /\ op = "to_int" /\ out.of = "to_mtgy"
    /\ inp.n = MaxModulus /\ inp.a = inp.n - 1 /\ Len(out.x) = 2 /\ out.x[2] # 0

(***************************************************************************)
(* C2: Montgomery exponentiation.  For every odd positive N (N = 1 and N    *)
(* with an all-ones top limb included), every 0 <= a < N and every e >= 0   *)
(* (e = 0 and bit lengths that are no multiple of k = 6 included),          *)
(* to_int(pow(to_mtgy(a), e)) = a^e mod N.                                  *)
(***************************************************************************)
RECURSIVE ModExp(_, _, _)
\* a^e mod n by repeated squaring on integers
ModExp(a, e, n) ==
    IF e = 0 THEN 1 % n
    ELSE LET h == ModExp(a, e \div 2, n)
         IN  (((h * h) % n) * (IF e % 2 = 1 THEN a ELSE 1)) % n

PowCorrect ==
    (pc = "done" /\ op = "to_int" /\ out.of = "pow") => out.v = ModExp(inp.a, inp.e, inp.n)

(***************************************************************************)
(* C5: generic modular exponentiation.  For every m > 0 of mn limbs, every  *)
(* 0 <= a < m given in an <= mn limbs and every b >= 0, modpow leaves in w  *)
(* the mn-limb value a^b mod m; exponent zero, modulus 1 and exponent bit   *)
(* lengths that are no multiple of k = 7 included.                          *)
(***************************************************************************)
ModpowCorrect ==
    (pc = "done" /\ op = "modpow") => Value(out.w) = ModExp(inp.a, inp.b, inp.m)

(***************************************************************************)
(* C11: Montgomery-integer invariant.  After any sequence of to_mtgy, mul,  *)
(* sqr and pow calls on one MtgyModulus, operands being earlier results of  *)
(* the same modulus, every MtgyInt produced has exactly `limbs` limbs and a *)
(* value v with 0 <= v < N.                                                 *)
(***************************************************************************)
MtgyIntInvariant ==
    (pc = "chain") =>
        /\ Len(out.x) = out.mg.limbs /\ Value(out.x) < out.mg.modulus
        /\ Len(out.y) = out.mg.limbs /\ Value(out.y) < out.mg.modulus

\* a chain on the largest modulus that has multiplied two earlier results and
\* holds a product that fills both limbs
MtgyIntWitness ==
    /\ pc = "chain" /\ op = "mul"
    /\ inp.n = MaxModulus /\ out.x # out.y /\ out.x[2] # 0

(***************************************************************************)
(* C12: no out-of-span access in multiplication.  For all valid sizes and   *)
(* all limb values, mul, mul_basecase, mul_toom22 and mul_unbalanced never  *)
(* touch a limb of w at an index >= xs + ys: the limbs behind w (zero       *)
(* before the call) are still zero after it, so the carry propagation of    *)
(* the two final incr calls of mul_toom22 has stopped inside w.             *)
(***************************************************************************)
MulInSpan ==
    (pc = "done" /\ op \in MulOps) => out.guard = Fill(Guard, 0)

(***************************************************************************)
(* C13: Montgomery constant.  For every odd positive N the constant N'0     *)
(* satisfies N * N'0 = -1 (mod B), and the two derivations in the code give *)
(* the same limb: inv1 of the low limb of R - N (MtgyModulus::new) and      *)
(* 0 - single_limb_montgomery_inverse(N[0]) (modpow_by_montgomery).         *)
(***************************************************************************)
Nquote0Law ==
    (pc = "done" /\ op = "nquote0") =>
        /\ (inp.n * out.facade) % B = B - 1
        /\ out.driver = out.facade

\* a modulus of two limbs at the widest limb whose constant is not 1 or B - 1
Nquote0Witness ==
    /\ pc = "done" /\ op = "nquote0"
    /\ bits = MaxInvBits /\ inp.n >= B
    /\ out.driver > 1 /\ out.driver < B - 1

(***************************************************************************)
(* C14: out-of-contract inputs are rejected by assertion and produce no     *)
(* result.  new panics for every even modulus (0 included) and every        *)
(* non-positive modulus and succeeds for every odd positive one; pow panics *)
(* for every negative exponent; mul, sqr, pow and to_int panic when the     *)
(* limb count of a MtgyInt operand differs from the modulus' `limbs`.       *)
(***************************************************************************)
Rejected ==
    CASE op = "new" -> inp.n <= 0 \/ inp.n % 2 = 0
      [] op = "mul" -> Len(inp.a) # inp.limbs \/ Len(inp.b) # inp.limbs
      [] op = "pow" -> Len(inp.a) # inp.limbs \/ inp.e < 0
      [] OTHER -> Len(inp.a) # inp.limbs

AssertionLaw ==
    (pc \in {"done", "checked_modulus"}) =>
        /\ out.panic <=> Rejected
        /\ out.panic => DOMAIN out = {"panic"}

\* pow given a MtgyInt of the right size and a negative exponent has panicked
AssertionWitness ==
    /\ pc = "done" /\ op = "pow"
    /\ Len(inp.a) = inp.limbs /\ inp.limbs = 2 /\ inp.e < 0 /\ out.panic

(***************************************************************************)
(* C15: frame.  A call to redc, to either modpow driver or to a facade      *)
(* method changes only its output buffer and its own scratch: the limbs of  *)
(* the modulus, of the operands or base and of the exponent are the same    *)
(* after the call as before it.                                             *)
(***************************************************************************)
FrameLaw ==
    (pc = "done") => out.frame = inp.frame

\* a two-window exponentiation on the largest modulus has returned
FrameWitness ==
    /\ pc = "done" /\ op = "pow"
    /\ inp.e = 64 /\ Len(inp.frame) = 7 /\ inp.frame[1] = B - 1 /\ inp.frame[3] > 1

(***************************************************************************)
(* C16: whole-integer Montgomery exponentiation.  For every odd modulus N,  *)
(* 0 <= base < N, exp >= 0 and window size k >= 1,                          *)
(* modpow_lr_k_ary_with_k_mgmy(base, exp, N, k) = base^exp mod N;           *)
(* to_natural(to_montgomery(a)) = a, and Montgomery::mul and sq give        *)
(* (a * b) mod N and (a * a) mod N after to_natural.                        *)
(***************************************************************************)
MontgomeryLaw ==
    (pc = "done") =>
        /\ ~out.panic
        /\ out.v = CASE op = "to_natural" -> inp.a
                     [] op = "mul" -> (inp.a * inp.b) % inp.n
                     [] op = "sq" -> (inp.a * inp.a) % inp.n
                     [] OTHER -> ModExp(inp.a, inp.e, inp.n)

\* three windows of two bits on a two-limb modulus, with a result that is not
\* one of the trivial residues
MontgomeryWitness ==
    /\ pc = "done" /\ op = "modpow"
    /\ inp.k = 2 /\ inp.e >= 17 /\ inp.n > B /\ inp.a > 1
    /\ out.v > 1

(***************************************************************************)
(* C17: in redc, for every odd N of r_limbs limbs and every t < N * R, the  *)
(* carry left by the propagation loop is zero at the end of every round     *)
(* i < r_limbs - 1, so that `carry = 0` at the start of the next round      *)
(* discards nothing.                                                        *)
(***************************************************************************)
NoCarryDiscarded ==
    (pc = "done" /\ op = "redc") =>
        \A i \in 1 .. (inp.r_limbs - 1) : out.carries[i] = 0

(***************************************************************************)
(* C18: in mul_toom22, in the branch where z1 is not negative, the          *)
(* subtraction cy - sub_n(...) never takes cy below zero: the borrow of     *)
(* sub_n is never larger than the carry cy collected before it, so the cy   *)
(* given to the final incr at w + 3*nl is the true non-negative carry.      *)
(***************************************************************************)
Toom22CarryNonNegative ==
    (pc = "done" /\ op = "mul_toom22" /\ ~out.z1_neg) => out.cy >= out.borrow

(***************************************************************************)
(* C19: Toom-22 split.  As stated: for every xs, ys with ys <= xs < 2*ys    *)
(* the split xh = xs >> 1, nl = xs - xh, yh = ys - nl satisfies             *)
(* 0 < xh <= nl and 0 < yh <= xh.                                           *)
(***************************************************************************)
Toom22SplitAsStated ==
    (pc = "done" /\ op = "toom22_split" /\ inp.ys <= inp.xs /\ inp.xs < 2 * inp.ys) =>
        /\ 0 < out.xh /\ out.xh <= out.nl
        /\ 0 < out.yh /\ out.yh <= out.xh

\* C19, amended: the same for every xs >= 2 and ys with ys <= xs and
\* xs + (xs mod 2) < 2 * ys, that is, ys larger than the low part nl
Toom22SplitLaw ==
    (pc = "done" /\ op = "toom22_split" /\ 2 <= inp.xs /\ inp.ys <= inp.xs
         /\ inp.xs + (inp.xs % 2) < 2 * inp.ys) =>
        /\ 0 < out.xh /\ out.xh <= out.nl
        /\ 0 < out.yh /\ out.yh <= out.xh

\* an odd xs with the smallest ys the amended condition admits
Toom22SplitWitness ==
    /\ pc = "done" /\ op = "toom22_split"
    /\ inp.xs = 41 /\ inp.ys = 22 /\ out.yh = 1

(***************************************************************************)
(* C20: dispatch safety.  Every call made while executing mul(xs, ys),      *)
(* mul_rec(xs, ys), sqr or sqr_rec with xs >= ys > 0 satisfies the callee's *)
(* assertions: mul_toom22 is entered with ys <= xs < 2*ys, 0 < xh <= nl and *)
(* 0 < yh <= xh, mul_unbalanced with xs > ys, and mul_rec and mul_basecase  *)
(* with first size >= second size > 0; and the recursion terminates.        *)
(***************************************************************************)
DispatchSafe ==
    /\ [](pc = "running" =>
            \A i \in 1 .. Len(out.stack) :
               /\ call_asserts(out.stack[i])
               /\ out.stack[i].xs >= out.stack[i].ys /\ out.stack[i].ys > 0)
    /\ (pc = "running") ~> (pc = "done")

\* a mul_toom22 on unequal sizes is about to run, inside the last product of a
\* mul_unbalanced
DispatchWitness ==
    /\ pc = "running" /\ op = "mul" /\ inp.xs >= 2 * inp.ys
    /\ out.stack # <<>> /\ Head(out.stack).fn = "mul_toom22"
    /\ Head(out.stack).xs > Head(out.stack).ys
    /\ out.executed >= 6

(***************************************************************************)
(* C21: mul_rec selects the same routine (basecase, unbalanced or Toom-22)  *)
(* as mul for every xs >= ys > 0, and sqr_rec the same routine as sqr for   *)
(* every xs.                                                                *)
(***************************************************************************)
SameDispatch ==
    (pc = "done" /\ op = "select") =>
        /\ out.mul_rec = out.mul
        /\ out.sqr_rec = out.sqr

(***************************************************************************)
(* C22: power table of the generic modpow.  After the precomputation, for   *)
(* every 0 <= j < 2^k, entry j is an mn-limb number: entry 0 has value 1    *)
(* (all higher limbs zero), entry 1 is a zero-extended to mn limbs, and     *)
(* every other entry j is a^j mod m, for every an <= mn and whatever the    *)
(* freshly allocated limbs contained.                                       *)
(***************************************************************************)
PowerTable ==
    (pc = "done" /\ op = "modpow") =>
        \A j \in 0 .. (2 ^ modpow_k - 1) :
           Value(Slice(out.table, j * inp.mn, inp.mn))
             = IF j = 0 THEN 1 ELSE IF j = 1 THEN inp.a ELSE ModExp(inp.a, j, inp.m)

(***************************************************************************)
(* C23: the result of the generic modpow does not depend on what the output *)
(* buffer w held before the call: two runs with the same m, a, b and        *)
(* different initial contents of w end with the same w.                     *)
(***************************************************************************)
OutputIndependent ==
    (pc = "done" /\ op = "modpow_pair") => out.first = out.second

(***************************************************************************)
(* C24: windowed exponent scan.  For an exponent b of bit length L and      *)
(* every window i < ceil(L / k), block_value is the sum over j < k with     *)
(* i*k+j < L of bit(b, i*k+j) * 2^j; no limb of b at an index >= bn is      *)
(* read; and the sum over i of block_value_i * 2^(i*k) is b.                *)
(***************************************************************************)
RECURSIVE ScanSum(_, _, _)
ScanSum(values, k, i) ==
    IF i > Len(values) THEN 0 ELSE values[i] * 2 ^ ((i - 1) * k) + ScanSum(values, k, i + 1)

ScanLaw ==
    (pc = "done" /\ op = "scan") =>
        /\ Len(out.values) = (BitLength(inp.b) + inp.k - 1) \div inp.k
        /\ \A i \in 1 .. Len(out.values) :
              out.values[i] = (inp.b \div 2 ^ ((i - 1) * inp.k)) % 2 ^ inp.k
        /\ \A r \in out.reads : r < inp.bn
        /\ ScanSum(out.values, inp.k, 1) = inp.b

\* a top window that extends past the bit length, next to limbs of all ones
ScanWitness ==
    /\ pc = "done" /\ op = "scan"
    /\ junk # 0 /\ inp.k = modpow_k /\ Len(out.values) = 2 /\ inp.bn = abs_size(inp.b)
    /\ BitLength(inp.b) = 9 /\ out.values[2] = 2

(***************************************************************************)
(* C25: order of operations in both modpow drivers.  Windows are processed  *)
(* from index ceil(L/k) - 1 down to 0; in each window exactly k squarings   *)
(* of w come first, followed by exactly one multiplication by               *)
(* table[block_value] if and only if block_value # 0; in total              *)
(* k * ceil(L/k) squarings, none when L = 0; table entry 0 is never read.   *)
(***************************************************************************)
WindowOrder ==
    (pc = "done" /\ op = "scan") =>
        LET T == out.trace
            count == (BitLength(inp.b) + inp.k - 1) \div inp.k
            digit(i) == (inp.b \div 2 ^ (i * inp.k)) % 2 ^ inp.k
        IN  /\ Cardinality({n \in 1 .. Len(T) : T[n].op = "sqr"}) = inp.k * count
            /\ \A n \in 1 .. Len(T) : T[n].window \in 0 .. (count - 1)
            /\ \A n \in 2 .. Len(T) :
                  /\ T[n].window <= T[n - 1].window
                  /\ T[n - 1].op = "mul" => T[n].window < T[n - 1].window
            /\ \A i \in 0 .. (count - 1) :
                  /\ Cardinality({n \in 1 .. Len(T) : T[n].op = "sqr" /\ T[n].window = i})
                       = inp.k
                  /\ {T[n].entry : n \in {n \in 1 .. Len(T) : T[n].op = "mul"
                                                               /\ T[n].window = i}}
                       = {digit(i)} \ {0}
                  /\ Cardinality({n \in 1 .. Len(T) : T[n].op = "mul" /\ T[n].window = i})
                       <= 1
            /\ \A n \in 1 .. Len(T) : T[n].op = "mul" => T[n].entry # 0

\* two windows of k = 6, the upper one with a multiplication and the lower one
\* without
WindowOrderWitness ==
    /\ pc = "done" /\ op = "scan"
    /\ inp.k = mtgy_k /\ inp.b = 192 /\ Len(out.trace) = 13
    /\ out.trace[7].op = "mul" /\ out.trace[7].entry = 3

(***************************************************************************)
(* C26: mul_1 aliasing.  mul_1 satisfies the mul_1 law with respect to the  *)
(* original contents of x when the output span is the input span (in        *)
(* place) and when the output span overlaps the input and starts at a later *)
(* limb, for the one-limb-at-a-time loop and for the loop unrolled by four. *)
(***************************************************************************)
Mul1AliasLaw ==
    (pc = "done" /\ op = "mul_1_alias") =>
        /\ out.generic.carry * B ^ inp.n + Value(out.generic.w) = inp.vl * Value(inp.x)
        /\ out.unrolled.carry * B ^ inp.n + Value(out.unrolled.w) = inp.vl * Value(inp.x)

(***************************************************************************)
(* C27: the kernels unrolled by four are equivalent to the                  *)
(* one-limb-at-a-time kernels: for every n > 0, every x, every initial w    *)
(* and every v, mul_1::generic_unroll_4 and mul_1::generic leave the same w *)
(* and return the same carry, and likewise the two addmul_1 kernels.        *)
(***************************************************************************)
UnrollEquivalent ==
    (pc = "done" /\ op \in {"mul_1", "addmul_1"}) => out.unrolled = out.generic

\* one unrolled round and a tail of two limbs, with a carry out of the top
UnrollWitness ==
    /\ pc = "done" /\ op = "addmul_1"
    /\ inp.n = 6 /\ inp.vl = B - 1 /\ out.unrolled.carry = B - 1
    /\ out.unrolled.w # inp.w

(***************************************************************************)
(* C28: the full-width driver computes in Montgomery form.  montgomery_mul  *)
(* returns a * b * R^(-1) mod n, a value in [0, n), for all a, b < n, and   *)
(* modpow_by_montgomery, entered with w = R mod n and a * R mod n, leaves   *)
(* w = a^b * R mod n.                                                       *)
(***************************************************************************)
FullWidthLaw ==
    /\ (pc = "done" /\ op = "montgomery_mul") =>
          Value(out.w) = FullUnshift(inp.a * inp.b, inp.n, B ^ inp.r_limbs)
    /\ (pc = "done" /\ op = "modpow_by_montgomery") =>
          Value(out.w) = (ModExp(inp.a, inp.b, inp.n) * B ^ inp.r_limbs) % inp.n

(***************************************************************************)
(* C29: redc reads and writes t only at offsets 0 .. 2 * limbs - 1 and w    *)
(* only at offsets 0 .. limbs - 1: a t of exactly 2 * limbs limbs, as       *)
(* MtgyModulus::redc supplies, is never overrun.  The limbs next to n, t    *)
(* and w are neither written nor have any influence on the result.          *)
(***************************************************************************)
RedcSpan ==
    (pc = "done" /\ op = "redc_span") =>
        /\ out.t_indices \subseteq 0 .. (2 * inp.r_limbs - 1)
        /\ out.w_indices \subseteq 0 .. (inp.r_limbs - 1)
        /\ out.zeros.guards = <<0, 0, 0>>
        /\ out.ones.guards = <<B - 1, B - 1, B - 1>>
        /\ out.zeros.w = out.ones.w
        /\ out.zeros.n = ToLimbs(inp.n, inp.r_limbs)
        /\ out.ones.n = ToLimbs(inp.n, inp.r_limbs)

\* two limbs, the last limb of t is touched, and t is all ones, so that the
\* carry loop carries at the top of t
RedcSpanWitness ==
    /\ pc = "done" /\ op = "redc_span"
    /\ inp.r_limbs = 2 /\ inp.t = B ^ 4 - 1
    /\ 2 * inp.r_limbs - 1 \in out.t_indices
    /\ out.w_indices = {0, 1}

(***************************************************************************)
(* C30: scratch sufficiency.  For every xs >= ys > TOOM22_THRESHOLD every   *)
(* scratch limb touched while mul(xs, ys) or sqr(xs) runs -- z1 at          *)
(* scratch[0 .. 2 * nl] and the scratch_out regions of all the calls below  *)
(* -- lies inside the 2 * xs limbs allocated, and the last product of       *)
(* mul_unbalanced fits in its temporary of 3 * ys limbs.                    *)
(***************************************************************************)
ScratchSufficient ==
    (pc = "done" /\ op = "scratch") =>
        /\ out.touched <= out.allocated
        /\ (inp.fn = "mul" /\ out.unbalanced) => out.tail <= 3 * inp.ys

====
